---- MODULE Spec2Model ----
(***************************************************************************)
(* Data-access layer of the Real Estate ERP dashboard (src/main.py):       *)
(* the source registry, the memoized sheet fetcher, the per-dataset sheet  *)
(* handlers, the client/property databases with their local backups, the   *)
(* row-level access rule for clients and the page routing that reaches     *)
(* them.                                                                   *)
(*                                                                         *)
(* Text is modelled as sequences of one-character strings so that          *)
(* substring and pattern matching are computed, not assumed.               *)
(***************************************************************************)
EXTENDS Integers, Sequences, FiniteSets, TLC

VARIABLES
    \* ---- access-rule evaluation on one snapshot (SpecFilter)
    fTable,        \* the DataFrame load_sheet_by_type('clients') returned
    fUser,         \* username argument
    fRole,         \* role argument
    fRemoteOut,    \* result of ClientsSheetHandler.load_clients
    fBackupOut,    \* result of ClientDatabase._load_local_backup on the same records
    fPc,           \* "start" | "remote" | "done"
    \* ---- session and page routing (SpecNav)
    navUser,       \* st.session_state.user
    navPage,       \* st.session_state.current_page
    navCalls,      \* arguments of the client-handler calls of the last script run
    navShown,      \* client records those calls returned for display
    navTable,      \* the remote clients snapshot
    navConfigured, \* whether the registry file lists any sheet
    navBackup,     \* data/clients_backup.json
    \* ---- source registry and fetch cache (Spec)
    regFile,       \* data/multi_sheets_config.json
    cfgCache,      \* st.cache_data entry of get_all_sheets_config (ttl 600)
    sheetCache,    \* st.cache_data entries of load_sheet_by_type, by sheet_type (ttl 300)
    remote,        \* by sheet id: "up" (pd.read_excel returns the workbook) | "down" (it raises)
    savePc,        \* "idle" | "writing": a save_sheets_config between open() and json.dump
    saveArg,       \* the sheets_data of the save in progress, else of the last save
    lastPut,       \* "none" | "ok" | "failed": what the last save_sheets_config returned
    regCommitted,  \* the last registry a save wrote completely (the initial one before any)
    regBefore,     \* the registry in force before the last successful save
    winA,          \* per type: the TTL window opened by the first call since expiry or clear
    activeTypes,   \* the dataset types this behaviour exercises
    \* ---- sheet handlers, databases and local backups (SpecData)
    focus,         \* the dataset type this behaviour exercises
    hCache,        \* st.cache_data entries of the focus type's sheet handler, by arguments
    dCache,        \* st.cache_data entries of its database accessor, by arguments
    clientsBackup, \* data/clients_backup.json
    propsBackup,   \* data/properties_backup.xlsx
    usersFile,     \* users.json
    fetchAge,      \* time since pd.read_excel was last called for the focus type
    goodLoad,      \* the public accessor of the focus type once returned remote records
    lastSnapshot,  \* the workbook of the most recent successful remote fetch
    addedIds,      \* the client_ids add_client returned, in order
    lastAdd,       \* the arguments and the outcome of the most recent add_client
    \* ---- evaluation of one function on one input (SpecFetchOutcome, SpecNormalize, ...)
    evalIn,        \* the arguments
    evalOut,       \* what the function returned, or that it raised
    evalPc,        \* "start" | "done"
    \* ---- ManagerControlPanel staff table (SpecPanel)
    panelUsers,    \* ManagerControlPanel.users at the end of the last script run
    panelMemo,     \* what st.cache_data holds for load_users()
    panelFile,     \* users.json
    panelActor,    \* st.session_state.user['username']
    panelRequest,  \* the last "Remove Employee" click: target and whether it was carried out
    \* ---- two sessions writing one file (SpecRace)
    wFile,         \* the file: a sequence of blocks, each tagged with its writer
    wPc,           \* per writer: "idle" | "open" | "done"
    wPos,          \* per writer: blocks written so far through its own file object
    wDoc,          \* per writer: how many blocks its document has
    \* ---- the activity log (SpecLog)
    logFile,       \* data/activity_log.txt: the characters written so far
    logLast        \* the arguments and the outcome of the most recent log_activity

filterVars == <<fTable, fUser, fRole, fRemoteOut, fBackupOut, fPc>>
navVars == <<navUser, navPage, navCalls, navShown, navTable, navConfigured, navBackup>>

fetchVars == <<regFile, cfgCache, sheetCache, remote, savePc, saveArg, lastPut,
               regCommitted, regBefore, winA, activeTypes>>

dataVars == <<focus, hCache, dCache, clientsBackup, propsBackup, usersFile,
              fetchAge, goodLoad, lastSnapshot, addedIds, lastAdd>>

evalVars  == <<evalIn, evalOut, evalPc>>
panelVars == <<panelUsers, panelMemo, panelFile, panelActor, panelRequest>>
raceVars  == <<wFile, wPc, wPos, wDoc>>
logVars   == <<logFile, logLast>>
sideVars  == <<evalVars, panelVars, raceVars, logVars>>

vars == <<filterVars, navVars, fetchVars, dataVars, sideVars>>

(***************************************************************************)
(* Text                                                                    *)
(***************************************************************************)
sAlice      == <<"A", "l", "i", "c", "e">>
sAliceLow   == <<"a", "l", "i", "c", "e">>
sAliceSmith == <<"a", "l", "i", "c", "e", ".", "s", "m", "i", "t", "h">>
sAliceXSmith == <<"a", "l", "i", "c", "e", "x", "s", "m", "i", "t", "h">>
sBob        == <<"B", "o", "b">>
sBobLow     == <<"b", "o", "b">>
sNan        == <<"n", "a", "n">>
sEmpty      == <<>>
sAdmin   == <<"a", "d", "m", "i", "n">>
sAnalyst == <<"a", "n", "a", "l", "y", "s", "t">>
sManager == <<"m", "a", "n", "a", "g", "e", "r">>
sEntry   == <<"d", "a", "t", "a">>
sSystem  == <<"s", "y", "s", "t", "e", "m">>
sUser    == <<"u", "s", "e", "r">>
sOwner   == <<"o", "w", "n", "e", "r">>
sJane    == <<"J", "a", "n", "e">>

\* str.lower() on the characters the model uses
LowerChar(c) ==
    CASE c = "A" -> "a"
      [] c = "B" -> "b"
      [] OTHER -> c

LowerText(s) == [i \in DOMAIN s |-> LowerChar(s[i])]

\* str.strip() on a text
RECURSIVE LStrip(_)
LStrip(s) == IF s # <<>> /\ Head(s) = " " THEN LStrip(Tail(s)) ELSE s

RECURSIVE RStrip(_)
RStrip(s) == IF s # <<>> /\ s[Len(s)] = " " THEN RStrip(SubSeq(s, 1, Len(s) - 1)) ELSE s

StripText(s) == RStrip(LStrip(s))

\* re.search(pat, s, re.IGNORECASE) restricted to patterns made of literal
\* characters and '.', which is what Series.str.contains(username, case=False)
\* evaluates: its regex parameter defaults to True.
RegexMatchAt(pat, s, k) ==
    \A i \in 1..Len(pat) :
        \/ pat[i] = "."
        \/ LowerChar(pat[i]) = LowerChar(s[k + i - 1])

RegexContains(pat, s) ==
    \E k \in 1..(Len(s) - Len(pat) + 1) : RegexMatchAt(pat, s, k)

\* plain case-insensitive substring test (no pattern characters)
SubstringAt(sub, s, k) ==
    \A i \in 1..Len(sub) : LowerChar(sub[i]) = LowerChar(s[k + i - 1])

ContainsIgnoreCase(sub, s) ==
    \E k \in 1..(Len(s) - Len(sub) + 1) : SubstringAt(sub, s, k)

(***************************************************************************)
(* Cells and tables.  A cell is a text value or NaN (an empty spreadsheet  *)
(* cell); a DataFrame is its header row and its rows of cells.             *)
(***************************************************************************)
Cell(s) == [na |-> FALSE, s |-> s]
NaN     == [na |-> TRUE, s |-> sEmpty]

\* the text of the name column in row i
NameCell(i) == Cell(<<"c", CASE i = 1 -> "1" [] i = 2 -> "2" [] i = 3 -> "3" [] OTHER -> "n">>)

\* Series.astype(str): NaN becomes the text "nan"
AsTypeStr(cell) == IF cell.na THEN sNan ELSE cell.s

\* str.strip() on the header texts the model uses
StripHeader(h) ==
    CASE h = " assigned_to " -> "assigned_to"
      [] h = "agent "        -> "agent"
      [] h = " property_type" -> "property_type"
      [] OTHER -> h

StripColumns(cols) == [j \in DOMAIN cols |-> StripHeader(cols[j])]

InColumns(name, cols) == \E j \in DOMAIN cols : cols[j] = name

ColumnIndex(name, cols) == CHOOSE j \in DOMAIN cols : cols[j] = name

\* df.rename(columns={possible: standard_col}); the header names of a frame
\* read by pd.read_excel are distinct
Rename(cols, possible, standard) ==
    [cols EXCEPT ![ColumnIndex(possible, cols)] = standard]

\* inner loop of the column mapping without `standard_col not in df.columns`
RECURSIVE ApplyAliasesUnguarded(_, _, _)
ApplyAliasesUnguarded(cols, standard, aliases) ==
    IF aliases = <<>> THEN cols
    ELSE IF InColumns(Head(aliases), cols) /\ Head(aliases) # standard
    THEN ApplyAliasesUnguarded(Rename(cols, Head(aliases), standard), standard, Tail(aliases))
    ELSE ApplyAliasesUnguarded(cols, standard, Tail(aliases))

\* inner loop: for possible in possible_names:
\*     if possible in df.columns and standard_col not in df.columns: rename
RECURSIVE ApplyAliases(_, _, _)
ApplyAliases(cols, standard, aliases) ==
    IF aliases = <<>> THEN cols
    ELSE IF InColumns(Head(aliases), cols) /\ ~InColumns(standard, cols)
    THEN ApplyAliases(Rename(cols, Head(aliases), standard), standard, Tail(aliases))
    ELSE ApplyAliases(cols, standard, Tail(aliases))

\* outer loop: for standard_col, possible_names in column_mapping.items()
RECURSIVE ApplyColumnMapping(_, _)
ApplyColumnMapping(cols, mapping) ==
    IF mapping = <<>> THEN cols
    ELSE ApplyColumnMapping(ApplyAliases(cols, Head(mapping)[1], Head(mapping)[2]),
                            Tail(mapping))

ClientsColumnMapping ==
    << <<"client_id",   <<"client_id", "id">> >>,
       <<"name",        <<"name", "client_name", "full_name">> >>,
       <<"phone",       <<"phone", "phone_number", "mobile">> >>,
       <<"assigned_to", <<"assigned_to", "agent", "sales_agent">> >>,
       <<"status",      <<"status", "client_status">> >>,
       <<"source",      <<"source", "lead_source">> >>,
       <<"budget",      <<"budget", "budget_range", "price_range">> >> >>

\* keep the rows, in order, whose index is in keep
RECURSIVE SelectRows(_, _, _)
SelectRows(rows, keep, i) ==
    IF i > Len(rows) THEN <<>>
    ELSE (IF i \in keep THEN <<rows[i]>> ELSE <<>>) \o SelectRows(rows, keep, i + 1)

\* df.to_dict('records'): one mapping column -> cell per row
ToRecords(df) ==
    [i \in DOMAIN df.rows |->
        [c \in {df.columns[j] : j \in DOMAIN df.columns} |->
            df.rows[i][ColumnIndex(c, df.columns)]]]

\* ClientsSheetHandler.load_clients after the fetch succeeded: header strip,
\* alias mapping, the role filter, to_dict.  An absent username (None) is the
\* empty text: both are falsy in `if username and role == 'sales'`.
SheetNormalizeClients(df) ==
    [columns |-> ApplyColumnMapping(StripColumns(df.columns), ClientsColumnMapping),
     rows    |-> df.rows]

SheetRoleFilter(df, username, role) ==
    IF username # sEmpty /\ role = "sales" /\ InColumns("assigned_to", df.columns)
    THEN [columns |-> df.columns,
          rows    |-> SelectRows(df.rows,
                        {i \in DOMAIN df.rows :
                            RegexContains(username,
                                AsTypeStr(df.rows[i][ColumnIndex("assigned_to", df.columns)]))},
                        1)]
    ELSE df

SheetClientsOf(df, username, role) ==
    ToRecords(SheetRoleFilter(SheetNormalizeClients(df), username, role))

\* c.get('assigned_to') == username on a record read back from the backup
AssignedEquals(rec, username) ==
    /\ "assigned_to" \in DOMAIN rec
    /\ ~rec["assigned_to"].na
    /\ rec["assigned_to"].s = username

\* ClientDatabase._load_local_backup: the role filter over the stored records
BackupRoleFilter(clients, username, role) ==
    IF role = "sales"
    THEN SelectRows(clients, {i \in DOMAIN clients : AssignedEquals(clients[i], username)}, 1)
    ELSE clients

(***************************************************************************)
(* ClientDatabase: the remote records, else the local backup               *)
(***************************************************************************)
NoBackup == [exists |-> FALSE, clients |-> <<>>]

\* a cell pd.read_excel read from a date cell: a pandas Timestamp
DateCell(t) == [na |-> FALSE, s |-> t, kind |-> "date"]

IsDateCell(cell) == "kind" \in DOMAIN cell

\* whether json.dump can encode the record: texts, NaN and the client_id
\* number yes, a Timestamp no (TypeError)
JsonEncodable(rec) ==
    \A f \in DOMAIN rec : f = "client_id" \/ ~IsDateCell(rec[f])

\* open(local_backup, 'w') and json.dump({"clients": clients, ...}) inside
\* try/except: pass.  When json.dump raises, the file is left truncated, and
\* _load_local_backup reads a file json.load rejects as no clients.
JsonWrite(clients) ==
    IF \A i \in DOMAIN clients : JsonEncodable(clients[i])
    THEN [exists |-> TRUE, clients |-> clients]
    ELSE [exists |-> TRUE, clients |-> <<>>]

\* ClientDatabase._load_local_backup(username, user_role)["clients"]
LocalBackupClients(backup, username, role) ==
    IF backup.exists THEN BackupRoleFilter(backup.clients, username, role) ELSE <<>>

\* ClientDatabase.load_clients(username, user_role)["clients"], given what
\* ClientsSheetHandler.load_clients(username, user_role) returned
DbClientsOf(sheetClients, backup, username, role) ==
    IF sheetClients # <<>> THEN sheetClients
    ELSE LocalBackupClients(backup, username, role)

\* the write-through of ClientDatabase.load_clients: the records it was given
DbBackupAfterLoad(sheetClients, backup) ==
    IF sheetClients # <<>> THEN JsonWrite(sheetClients)
    ELSE backup

(***************************************************************************)
(* MultiSheetManager: the registry file, get_all_sheets_config,            *)
(* get_sheet_by_type and the memoized load_sheet_by_type.                  *)
(*                                                                         *)
(* A st.cache_data entry is [has, val, age]: age is the time since the     *)
(* value was stored; Tick drops an entry once its age reaches the ttl.     *)
(***************************************************************************)
TTL_SHEET  == 300
TTL_CONFIG == 600

\* the step of the clock: half the shorter ttl
Quantum == TTL_SHEET \div 2

Types == {"properties", "clients", "users", "activity", "transactions"}

\* test_all_connections: the order in which the types are listed
TypeOrder == <<"properties", "clients", "users", "activity", "transactions">>

TypeRank(t) == CHOOSE i \in DOMAIN TypeOrder : TypeOrder[i] = t

SheetIds == {"S1", "S2"}

urlS1  == "https://docs.google.com/spreadsheets/d/S1/edit"
urlS2  == "https://drive.google.com/open?id=S2"
urlBad == "https://example.com/sheet.xlsx"

\* the two patterns of load_sheet_by_type on the location texts the model uses
ExtractSheetId(url) ==
    CASE url = urlS1 -> [found |-> TRUE,  id |-> "S1"]
      [] url = urlS2 -> [found |-> TRUE,  id |-> "S2"]
      [] OTHER       -> [found |-> FALSE, id |-> ""]

EmptyDf == [columns |-> <<>>, rows |-> <<>>]

SnapA == [columns |-> <<"name", "assigned_to", "username", "price">>,
          rows |-> << <<NameCell(1), Cell(sAlice), Cell(sAliceLow), Cell(<<"1", "0">>)>>,
                      <<NameCell(2), Cell(sBob),   Cell(sBobLow),   Cell(<<"n", "/", "a">>)>> >>]
SnapB == [columns |-> <<"name", "agent">>,
          rows |-> << <<NameCell(1), Cell(sBob)>> >>]

SnapOf(id) == IF id = "S1" THEN SnapA ELSE SnapB

NoSheet == [found |-> FALSE, type |-> "", url |-> ""]
SheetEntry(t, url) == [found |-> TRUE, type |-> t, url |-> url]

NoEntry == [has |-> FALSE]

\* json.load of the registry file; a missing or unparsable file gives
\* {"sheets": [], "version": "1.0"}
ReadConfigFile == IF regFile.state = "ok" THEN regFile.sheets ELSE <<>>

\* get_all_sheets_config(): the memoized value, else the file
GetAllSheetsConfig == IF cfgCache.has THEN cfgCache.val ELSE ReadConfigFile

CfgCacheAfterGet ==
    IF cfgCache.has THEN cfgCache
    ELSE [has |-> TRUE, val |-> ReadConfigFile, age |-> 0]

\* get_sheet_by_type: the first entry of the list with that type
RECURSIVE FirstOfType(_, _)
FirstOfType(sheets, t) ==
    IF sheets = <<>> THEN NoSheet
    ELSE IF Head(sheets).type = t THEN Head(sheets)
    ELSE FirstOfType(Tail(sheets), t)

GetSheetByType(t) == FirstOfType(GetAllSheetsConfig, t)

\* the body of load_sheet_by_type: (df, message)
FetchFailure(msg) == [ok |-> FALSE, df |-> EmptyDf, msg |-> msg]

FetchSheet(t) ==
    LET sheet == GetSheetByType(t)
        sid   == ExtractSheetId(sheet.url)
    IN  IF ~sheet.found THEN FetchFailure("not configured")
        ELSE IF sheet.url = "" THEN FetchFailure("URL not configured")
        ELSE IF ~sid.found THEN FetchFailure("Invalid URL format")
        ELSE IF remote[sid.id] = "down" THEN FetchFailure("Error")
        ELSE IF SnapOf(sid.id).rows = <<>> THEN FetchFailure("Sheet is empty")
        ELSE [ok |-> TRUE, df |-> SnapOf(sid.id), msg |-> "Successfully loaded"]

\* load_sheet_by_type(sheet_type): the memoized value, else the body
LoadSheetByType(t) == IF sheetCache[t].has THEN sheetCache[t].val ELSE FetchSheet(t)

\* whether this call reaches pd.read_excel
RemoteFetched(t) ==
    /\ ~sheetCache[t].has
    /\ GetSheetByType(t).found
    /\ ExtractSheetId(GetSheetByType(t).url).found

\* the entry st.cache_data stores for a value computed now; src records the
\* registry entry it was computed from
StoredEntry(t) ==
    [has |-> TRUE, val |-> FetchSheet(t), age |-> 0, src |-> GetSheetByType(t)]

\* a memoization that keeps successful results only
SheetCacheAfterLoadOkOnly(t) ==
    IF sheetCache[t].has \/ ~FetchSheet(t).ok THEN sheetCache
    ELSE [sheetCache EXCEPT ![t] = StoredEntry(t)]

SheetCacheAfterLoad(t) ==
    IF sheetCache[t].has THEN sheetCache
    ELSE [sheetCache EXCEPT ![t] = StoredEntry(t)]

CfgCacheAfterLoad(t) == IF sheetCache[t].has THEN cfgCache ELSE CfgCacheAfterGet

\* expiry of an entry with time to live ttl after Quantum more seconds
Aged(entry, ttl) ==
    IF entry.has /\ entry.age + Quantum < ttl
    THEN [entry EXCEPT !.age = entry.age + Quantum]
    ELSE NoEntry

(***************************************************************************)
(* The sheet handlers and the databases over load_sheet_by_type.  One      *)
(* behaviour exercises one dataset type (focus): the memoized values of    *)
(* different types share no key and their backups are different files.     *)
(***************************************************************************)
TTL_HANDLER     == 300
TTL_USERS_SHEET == 600
TTL_DB          == 300

\* the arguments st.cache_data hashes: (username, role) for the client
\* accessors, (limit) for the activity log, nothing for the others
Key(u, r, n) == [username |-> u, role |-> r, limit |-> n]
KeyNone     == Key(sEmpty, "None", 0)
KeySystem   == Key(sSystem, "owner", 0)
KeyAlice    == Key(sAliceLow, "sales", 0)
KeyAdmin    == Key(sAdmin, "owner", 0)
KeyLimit20  == Key(sEmpty, "None", 20)
KeyLimit100 == Key(sEmpty, "None", 100)
CallKeys == {KeyNone, KeySystem, KeyAlice, KeyAdmin, KeyLimit20, KeyLimit100}

PropertiesColumnMapping ==
    << <<"unit_id",      <<"unit_id", "id", "property_id">> >>,
       <<"unit_type",    <<"unit_type", "property_type", "type">> >>,
       <<"listing_type", <<"listing_type", "sale_rent", "transaction_type">> >>,
       <<"area",         <<"area", "region", "location", "city">> >>,
       <<"address",      <<"address", "main_address", "street_address">> >>,
       <<"price_total",  <<"price_total", "price", "total_price", "value">> >>,
       <<"area_sqm",     <<"area_sqm", "area_m2", "size", "square_meters">> >>,
       <<"rooms",        <<"rooms", "bedrooms", "number_of_rooms">> >>,
       <<"bathrooms",    <<"bathrooms", "washrooms", "number_of_bathrooms">> >>,
       <<"floor_number", <<"floor_number", "floor", "level">> >>,
       <<"status",       <<"status", "unit_status", "availability">> >> >>

NumericCols == {"price_total", "area_sqm", "rooms", "bathrooms", "floor_number"}

IsDigit(c) == c \in {"0", "1", "2", "3", "4", "5", "6", "7", "8", "9"}
IsNumericText(s) == s # <<>> /\ \A i \in DOMAIN s : IsDigit(s[i])

\* pd.to_numeric(errors='coerce') on one cell: a text of digits stands for
\* its number, anything else becomes NaN
ToNumeric(cell) == IF cell.na \/ ~IsNumericText(cell.s) THEN NaN ELSE cell

\* pd.to_numeric applied to every column instead of the numeric ones
CoerceEveryColumn(df) ==
    [columns |-> df.columns,
     rows |-> [i \in DOMAIN df.rows |->
                [j \in DOMAIN df.columns |-> ToNumeric(df.rows[i][j])]]]

\* for col in numeric_cols: if col in df.columns: df[col] = pd.to_numeric(...)
CoerceColumns(df) ==
    [columns |-> df.columns,
     rows |-> [i \in DOMAIN df.rows |->
                [j \in DOMAIN df.columns |->
                    IF df.columns[j] \in NumericCols THEN ToNumeric(df.rows[i][j])
                    ELSE df.rows[i][j]]]]

\* PropertiesSheetHandler.load_properties, given (df, message)
PropertiesOf(res) ==
    IF ~res.ok THEN EmptyDf
    ELSE CoerceColumns(
            [columns |-> ApplyColumnMapping(StripColumns(res.df.columns),
                                            PropertiesColumnMapping),
             rows |-> res.df.rows])

\* ClientsSheetHandler.load_clients, given (df, message)
ClientsOf(res, username, role) ==
    IF ~res.ok THEN <<>> ELSE SheetClientsOf(res.df, username, role)

\* row.get(col, default) on row i of a DataFrame
GetCell(df, i, col, default) ==
    IF InColumns(col, df.columns) THEN df.rows[i][ColumnIndex(col, df.columns)]
    ELSE default

UserOfRow(df, i) ==
    [username |-> StripText(AsTypeStr(GetCell(df, i, "username", Cell(sEmpty)))),
     password |-> AsTypeStr(GetCell(df, i, "password", Cell(sEmpty))),
     role     |-> LowerText(AsTypeStr(GetCell(df, i, "role", Cell(sUser))))]

\* UsersSheetHandler.load_users, given (df, message): the users dict, in
\* insertion order (rows with an empty username are skipped)
UsersOf(res) ==
    IF ~res.ok THEN <<>>
    ELSE LET df == [columns |-> StripColumns(res.df.columns), rows |-> res.df.rows]
             all == [i \in DOMAIN df.rows |-> UserOfRow(df, i)]
         IN  SelectRows(all, {i \in DOMAIN all : all[i].username # sEmpty}, 1)

\* ActivityLogsHandler.load_activity_logs(limit), given (df, message)
ActivityOf(res, limit) ==
    IF ~res.ok THEN EmptyDf
    ELSE [columns |-> StripColumns(res.df.columns),
          rows |-> SubSeq(res.df.rows, 1,
                          IF limit < Len(res.df.rows) THEN limit ELSE Len(res.df.rows))]

\* TransactionsHandler.load_transactions, given (df, message)
TransactionsOf(res) ==
    IF ~res.ok THEN EmptyDf
    ELSE [columns |-> StripColumns(res.df.columns), rows |-> res.df.rows]

\* the body of the focus type's sheet handler
HandlerBody(key) ==
    LET res == LoadSheetByType(focus)
    IN  CASE focus = "properties"   -> PropertiesOf(res)
          [] focus = "clients"      -> ClientsOf(res, key.username, key.role)
          [] focus = "users"        -> UsersOf(res)
          [] focus = "activity"     -> ActivityOf(res, key.limit)
          [] OTHER                  -> TransactionsOf(res)

HandlerTtl == IF focus = "users" THEN TTL_USERS_SHEET ELSE TTL_HANDLER

\* the memoized sheet handler
HandlerValue(key) == IF hCache[key].has THEN hCache[key].val ELSE HandlerBody(key)

\* `not clients`, `not sheet_users`, `df.empty`
IsEmptyValue(v) == IF focus \in {"clients", "users"} THEN v = <<>> ELSE v.rows = <<>>

\* DataFrame.to_excel / pd.read_excel: an empty text and NaN are both written
\* as a blank cell and a blank cell is read as NaN
XlsxWrite(df) ==
    [columns |-> df.columns,
     rows |-> [i \in DOMAIN df.rows |->
                [j \in DOMAIN df.columns |->
                    IF df.rows[i][j].na \/ df.rows[i][j].s = sEmpty THEN NaN
                    ELSE df.rows[i][j]]]]

NoPropsBackup == [exists |-> FALSE, df |-> EmptyDf]

\* PropertyDatabase._load_local_backup
PropsBackupRead == IF propsBackup.exists THEN propsBackup.df ELSE EmptyDf

NoUsersFile == [exists |-> FALSE, users |-> <<>>]

\* bcrypt.hashpw(password, bcrypt.gensalt()): the hash stands as the password
\* behind the bcrypt prefix
BcryptOf(text) == <<"$", "2", "b", "$">> \o text

sSales == <<"s", "a", "l", "e", "s">>
s123   == <<"1", "2", "3">>

DefaultUser(name, pw, role) ==
    [username |-> name, password |-> BcryptOf(pw \o s123), role |-> role]

\* load_users: default_users
DefaultUsers ==
    << DefaultUser(sAdmin, sAdmin, sOwner),
       DefaultUser(sManager, sManager, sManager),
       DefaultUser(sAnalyst, sAnalyst, sEntry \o <<"_">> \o sAnalyst),
       DefaultUser(sSales \o <<"1">>, sSales, sSales),
       DefaultUser(sSales \o <<"2">>, sSales, sSales),
       DefaultUser(sEntry \o <<"_", "e", "n", "t", "r", "y">>, sEntry,
                   sEntry \o <<"_", "e", "n", "t", "r", "y">>) >>

\* the body of the focus type's database accessor: PropertyDatabase.
\* load_properties, ClientDatabase.load_clients(...)["clients"], load_users
\* io is what open(path, 'w') does during the call: "ok", or "fail" when it
\* raises OSError.  In load_users the write of the sheet's users sits in the
\* outer try, whose handler falls through to the default accounts.
IoChoices == {"ok", "fail"}

DbBodyIo(key, io) ==
    LET v == HandlerValue(key)
    IN  CASE focus = "properties" -> (IF ~IsEmptyValue(v) THEN v ELSE PropsBackupRead)
          [] focus = "clients" -> DbClientsOf(v, clientsBackup, key.username, key.role)
          [] OTHER -> (IF ~IsEmptyValue(v) THEN (IF io = "ok" THEN v ELSE DefaultUsers)
                       ELSE IF usersFile.exists THEN usersFile.users
                       ELSE DefaultUsers)

\* the body while the files can be written
DbBody(key) == DbBodyIo(key, "ok")

\* the memoized database accessor
DbValueIo(key, io) == IF dCache[key].has THEN dCache[key].val ELSE DbBodyIo(key, io)

DbValue(key) == DbValueIo(key, "ok")

\* the files after the body of the database accessor ran
ClientsBackupAfterDb(key) ==
    IF focus = "clients" THEN DbBackupAfterLoad(HandlerValue(key), clientsBackup)
    ELSE clientsBackup

PropsBackupAfterDb(key) ==
    IF focus = "properties" /\ ~IsEmptyValue(HandlerValue(key))
    THEN [exists |-> TRUE, df |-> XlsxWrite(HandlerValue(key))]
    ELSE propsBackup

UsersFileAfterDb(key) ==
    IF focus # "users" THEN usersFile
    ELSE IF ~IsEmptyValue(HandlerValue(key))
         THEN [exists |-> TRUE, users |-> HandlerValue(key)]
    ELSE IF usersFile.exists THEN usersFile
    ELSE [exists |-> TRUE, users |-> DefaultUsers]

\* the arguments the pages pass to the focus type's sheet handler
\* (render_multi_sheet_dashboard, render_manager_dashboard)
HandlerKeys ==
    IF focus = "activity" THEN {KeyLimit20, KeyLimit100} ELSE {KeyNone}

\* the arguments the pages pass to the focus type's database accessor
DbKeys ==
    CASE focus = "clients"    -> {KeyAlice, KeyAdmin}
      [] focus = "properties" -> {KeyNone}
      [] focus = "users"      -> {KeyNone}
      [] OTHER                -> {}

NoAge == [has |-> FALSE]

\* time since an event, counted up to the longest ttl
AgedCapped(a) ==
    IF a.has
    THEN [a EXCEPT !.age = IF a.age + Quantum < TTL_CONFIG THEN a.age + Quantum
                           ELSE TTL_CONFIG]
    ELSE a

\* values of the variables of a part of the system a specification leaves out
NoAdd == [has |-> FALSE]

EvalIdle == evalIn = <<>> /\ evalOut = <<>> /\ evalPc = "idle"

PanelIdle ==
    /\ panelUsers = <<>>
    /\ panelMemo = [has |-> FALSE]
    /\ panelFile = <<>>
    /\ panelActor = sEmpty
    /\ panelRequest = [has |-> FALSE]

RaceIdle == wFile = <<>> /\ wPc = <<>> /\ wPos = <<>> /\ wDoc = <<>>

LogIdle == logFile = <<>> /\ logLast = [has |-> FALSE, calls |-> 0]

SideIdle == EvalIdle /\ PanelIdle /\ RaceIdle /\ LogIdle

FilterIdle ==
    /\ fTable = [columns |-> <<>>, rows |-> <<>>]
    /\ fUser = sEmpty
    /\ fRole = "none"
    /\ fRemoteOut = <<>>
    /\ fBackupOut = <<>>
    /\ fPc = "idle"

FetchIdle ==
    /\ regFile = [state |-> "absent", sheets |-> <<>>]
    /\ cfgCache = NoEntry
    /\ sheetCache = [t \in Types |-> NoEntry]
    /\ remote = [id \in SheetIds |-> "down"]
    /\ savePc = "idle"
    /\ saveArg = <<>>
    /\ lastPut = "none"
    /\ regCommitted = <<>>
    /\ regBefore = <<>>
    /\ winA = [t \in Types |-> NoEntry]
    /\ activeTypes = {}

DataIdle ==
    /\ focus = "none"
    /\ hCache = [k \in CallKeys |-> NoEntry]
    /\ dCache = [k \in CallKeys |-> NoEntry]
    /\ clientsBackup = NoBackup
    /\ propsBackup = NoPropsBackup
    /\ usersFile = NoUsersFile
    /\ fetchAge = NoAge
    /\ goodLoad = FALSE
    /\ lastSnapshot = [has |-> FALSE, df |-> EmptyDf]
    /\ addedIds = <<>>
    /\ lastAdd = NoAdd

NavIdle ==
    /\ navUser = [username |-> sEmpty, role |-> "none"]
    /\ navPage = "None"
    /\ navCalls = {}
    /\ navShown = {}
    /\ navTable = [columns |-> <<>>, rows |-> <<>>]
    /\ navConfigured = FALSE
    /\ navBackup = NoBackup

(***************************************************************************)
(* SpecFilter: the access rule evaluated on one client snapshot            *)
(***************************************************************************)
MaxRows == 3

AssigneeCells == {Cell(sAlice), Cell(sAliceSmith), Cell(sAliceXSmith), Cell(sBob), NaN}

\* header rows a clients sheet may carry: the canonical column, none at all,
\* an alias, a padded header, a differently-cased header
OneColumnHeader  == <<"name">>
TwoColumnHeaders == { <<"name", "assigned_to">>, <<"name", "agent">>,
                      <<"name", " assigned_to ">>, <<"name", "Assigned_To">> }

AssigneeLists == UNION { [1..n -> AssigneeCells] : n \in 1..MaxRows }

FilterTables ==
    { [columns |-> h, rows |-> [i \in DOMAIN a |-> <<NameCell(i), a[i]>>]] :
        h \in TwoColumnHeaders, a \in AssigneeLists }
    \cup
    { [columns |-> OneColumnHeader, rows |-> [i \in 1..n |-> <<NameCell(i)>>]] :
        n \in 1..MaxRows }

FilterUsers == {sAliceLow, sBobLow, sAliceSmith}
FilterRoles == {"sales", "owner", "data_analyst"}

FilterInit ==
    /\ fTable \in FilterTables
    /\ fUser \in FilterUsers
    /\ fRole \in FilterRoles
    /\ fRemoteOut = <<>>
    /\ fBackupOut = <<>>
    /\ fPc = "start"
    /\ NavIdle
    /\ FetchIdle
    /\ DataIdle
    /\ SideIdle

\* the records are served from the remote snapshot
FilterRemote ==
    /\ fPc = "start"
    /\ fRemoteOut' = SheetClientsOf(fTable, fUser, fRole)
    /\ fPc' = "remote"
    /\ UNCHANGED <<fTable, fUser, fRole, fBackupOut>>
    /\ UNCHANGED <<navVars, fetchVars, dataVars, sideVars>>

\* the same records (the normalized snapshot, as an all-seeing load wrote it
\* to data/clients_backup.json) are served from the local backup
FilterBackup ==
    /\ fPc = "remote"
    /\ fBackupOut' = BackupRoleFilter(SheetClientsOf(fTable, sEmpty, "owner"), fUser, fRole)
    /\ fPc' = "done"
    /\ UNCHANGED <<fTable, fUser, fRole, fRemoteOut>>
    /\ UNCHANGED <<navVars, fetchVars, dataVars, sideVars>>

FilterNext == FilterRemote \/ FilterBackup

SpecFilter == FilterInit /\ [][FilterNext]_vars

\* what the access rule of the specification retains: the records whose
\* assigned_to field contains the identity as a case-insensitive substring
RuleRetains(rec, username) ==
    /\ "assigned_to" \in DOMAIN rec
    /\ ~rec["assigned_to"].na
    /\ ContainsIgnoreCase(username, rec["assigned_to"].s)

RuleExpected(df, username, role) ==
    LET all == ToRecords(SheetNormalizeClients(df))
    IN  IF role = "sales"
        THEN SelectRows(all, {i \in DOMAIN all : RuleRetains(all[i], username)}, 1)
        ELSE all

\* C1: for every snapshot and identity, load_clients(identity, 'sales') returns
\* exactly the rows whose assigned_to contains identity (case-insensitive
\* substring), in snapshot order; every other role gets every row.
C1_RemoteFilterExact ==
    fPc # "start" => fRemoteOut = RuleExpected(fTable, fUser, fRole)

\* C3: the rows retained on the remote read path equal the rows retained when
\* the same records are served from the local backup.
C3_SameFilterBothPaths ==
    fPc = "done" => fRemoteOut = fBackupOut

(***************************************************************************)
(* SpecNav: login, the sidebar buttons and the page routing of main().     *)
(* One action is one Streamlit script run: the sidebar, at most one        *)
(* clicked button, then the routed page.  The memoization of the handlers  *)
(* is left out here: an entry is keyed by (username, role) and holds what  *)
(* the same call computed.                                                 *)
(***************************************************************************)
NoUser == [username |-> sEmpty, role |-> "none"]

NavUsers ==
    { [username |-> sAliceLow, role |-> "sales"],
      [username |-> sBobLow,   role |-> "sales"],
      [username |-> sAdmin,    role |-> "owner"],
      [username |-> sManager,  role |-> "manager"],
      [username |-> sAnalyst,  role |-> "data_analyst"],
      [username |-> sEntry,    role |-> "data_entry"] }

NavTables ==
    { [columns |-> h, rows |-> [i \in DOMAIN a |-> <<NameCell(i), a[i]>>]] :
        h \in {<<"name", "assigned_to">>, <<"name", "agent">>},
        a \in { <<Cell(sAlice), Cell(sAliceSmith), Cell(sBob)>>,
                <<Cell(sBob)>>,
                <<Cell(sAlice), NaN>> } }

\* a sidebar that shows the owner's buttons to every role
ButtonsForEveryRole(role) ==
    {"owner", "multi_sheet_dashboard", "multi_sheet_config", "quick_setup", role}

\* render_navigation: the buttons shown to a role, by the page each one sets
ButtonsFor(role) ==
    (CASE role = "owner"        -> {"owner", "multi_sheet_dashboard", "multi_sheet_config"}
       [] role = "manager"      -> {"manager", "multi_sheet_dashboard"}
       [] role = "data_analyst" -> {"analyst", "multi_sheet_dashboard"}
       [] role = "sales"        -> {"sales_search", "sales_clients", "multi_sheet_dashboard"}
       [] role = "data_entry"   -> {"data_upload", "data_manage", "multi_sheet_dashboard"}
       [] OTHER -> {})
    \cup {role}
    \cup (IF role \in {"owner", "manager"} THEN {"quick_setup"} ELSE {})

\* main: the page routing
Renderer(page, role) ==
    CASE page = "multi_sheet_dashboard" -> "multi_sheet_dashboard"
      [] page = "multi_sheet_config"    -> "multi_sheet_config"
      [] page = "quick_setup"           -> "quick_setup"
      [] page = "owner"                 -> "owner"
      [] page = "manager"               -> "manager"
      [] page = "analyst"               -> "analyst"
      [] page \in {"sales_search", "sales_clients", "sales_performance"} -> "sales"
      [] page \in {"data_upload", "data_manage"} -> "data_entry"
      [] OTHER ->
            (CASE role = "owner"        -> "owner"
               [] role = "manager"      -> "manager"
               [] role = "data_analyst" -> "analyst"
               [] role = "sales"        -> "sales"
               [] role = "data_entry"   -> "data_entry"
               [] OTHER -> "none")

DbCall(u, r)    == [via |-> "ClientDatabase", username |-> u, role |-> r]
SheetCall(u, r) == [via |-> "ClientsSheetHandler", username |-> u, role |-> r]

\* render_navigation: get_client_metrics(user['username'], user['role'])
SidebarCalls(user) ==
    IF user.role \in {"owner", "manager", "sales", "data_analyst"}
    THEN <<DbCall(user.username, user.role)>>
    ELSE <<>>

\* the client-handler calls of each page, in order
PageCalls(renderer, user, configured) ==
    CASE renderer = "multi_sheet_dashboard" ->
            IF configured THEN <<SheetCall(sEmpty, "None")>> ELSE <<>>
      [] renderer = "owner"   -> <<DbCall(user.username, user.role)>>
      [] renderer = "analyst" -> <<DbCall(sAnalyst, "data_analyst"),
                                   DbCall(sAnalyst, "data_analyst"),
                                   DbCall(sAnalyst, "data_analyst")>>
      [] renderer = "sales"   -> <<DbCall(user.username, user.role),
                                   DbCall(user.username, user.role)>>
      [] OTHER -> <<>>

\* what MultiSheetManager.load_sheet_by_type('clients') gives the handler
NavSheetClients(call) ==
    IF navConfigured THEN SheetClientsOf(navTable, call.username, call.role) ELSE <<>>

NavCallResult(call, backup) ==
    IF call.via = "ClientsSheetHandler" THEN NavSheetClients(call)
    ELSE DbClientsOf(NavSheetClients(call), backup, call.username, call.role)

NavCallBackup(call, backup) ==
    IF call.via = "ClientsSheetHandler" THEN backup
    ELSE DbBackupAfterLoad(NavSheetClients(call), backup)

Range(seq) == {seq[i] : i \in DOMAIN seq}

RECURSIVE RunShown(_, _)
RunShown(calls, backup) ==
    IF calls = <<>> THEN {}
    ELSE Range(NavCallResult(Head(calls), backup))
            \cup RunShown(Tail(calls), NavCallBackup(Head(calls), backup))

RECURSIVE RunBackup(_, _)
RunBackup(calls, backup) ==
    IF calls = <<>> THEN backup
    ELSE RunBackup(Tail(calls), NavCallBackup(Head(calls), backup))

\* one run of main() for a logged-in user with current_page already set
ScriptRun(user, page) ==
    LET calls == SidebarCalls(user) \o PageCalls(Renderer(page, user.role), user, navConfigured)
    IN  /\ navCalls' = Range(calls)
        /\ navShown' = RunShown(calls, navBackup)
        /\ navBackup' = RunBackup(calls, navBackup)

NavInit ==
    /\ navUser = NoUser
    /\ navPage = "None"
    /\ navCalls = {}
    /\ navShown = {}
    /\ navTable \in NavTables
    /\ navConfigured \in BOOLEAN
    /\ navBackup = NoBackup
    /\ FilterIdle
    /\ FetchIdle
    /\ DataIdle
    /\ SideIdle

\* render_login_page: a successful authentication, then st.rerun()
NavLogin(u) ==
    /\ navUser = NoUser
    /\ navUser' = u
    /\ navPage' = u.role
    /\ ScriptRun(u, u.role)
    /\ UNCHANGED <<navTable, navConfigured>>
    /\ UNCHANGED <<filterVars, fetchVars, dataVars, sideVars>>

\* render_navigation: a navigation button, then the routed page
NavClick(page) ==
    /\ navUser # NoUser
    /\ page \in ButtonsFor(navUser.role)
    /\ navPage' = page
    /\ ScriptRun(navUser, page)
    /\ UNCHANGED <<navUser, navTable, navConfigured>>
    /\ UNCHANGED <<filterVars, fetchVars, dataVars, sideVars>>

\* render_navigation: Logout clears the session state
NavLogout ==
    /\ navUser # NoUser
    /\ navUser' = NoUser
    /\ navPage' = "None"
    /\ navCalls' = {}
    /\ navShown' = {}
    /\ UNCHANGED <<navTable, navConfigured, navBackup>>
    /\ UNCHANGED <<filterVars, fetchVars, dataVars, sideVars>>

\* main: what a run in this state puts on the screen, the login page or
\* the page current_page routes to
Routed == IF navUser = NoUser THEN "login" ELSE Renderer(navPage, navUser.role)

\* render_owner_dashboard: the Quick Access buttons, by the page each sets
QuickAccessPages == {"multi_sheet_dashboard", "multi_sheet_config", "quick_setup"}

\* render_quick_setup_wizard: "Go to Dashboard" and "Start Using System"
WizardPages == {"multi_sheet_dashboard", "home"}

\* a button inside the routed page: the run renders the page it was routed
\* to, the button sets current_page for the next run
NavPageButton(page) ==
    /\ navUser # NoUser
    /\ \/ Routed = "owner" /\ page \in QuickAccessPages
       \/ Routed = "quick_setup" /\ page \in WizardPages
    /\ navPage' = page
    /\ ScriptRun(navUser, navPage)
    /\ UNCHANGED <<navUser, navTable, navConfigured>>
    /\ UNCHANGED <<filterVars, fetchVars, dataVars, sideVars>>

NavPages == UNION {ButtonsFor(u.role) : u \in NavUsers}

NavNext ==
    \/ \E u \in NavUsers : NavLogin(u)
    \/ \E page \in NavPages : NavClick(page)
    \/ \E page \in QuickAccessPages \cup WizardPages : NavPageButton(page)
    \/ NavLogout

SpecNav == NavInit /\ [][NavNext]_vars

\* C2: while the logged-in user's role is sales, every client record loaded
\* for display has an assigned_to containing that user's identity, and every
\* call of the client handler carries the acting identity and role.
C2_SalesSeesOwnClientsOnly ==
    navUser.role = "sales" =>
        /\ \A rec \in navShown : RuleRetains(rec, navUser.username)
        /\ \A call \in navCalls :
                call.username = navUser.username /\ call.role = navUser.role

(***************************************************************************)
(* Spec: the source registry and the fetch cache.  Sessions run in their   *)
(* own threads, so a reader may run between the open() and the json.dump   *)
(* of a save_sheets_config; a load or a get is one step.                   *)
(***************************************************************************)
Lower2(A) == CHOOSE t \in A : \A u \in A : TypeRank(t) <= TypeRank(u)
Upper2(A) == CHOOSE t \in A : \A u \in A : TypeRank(u) <= TypeRank(t)

\* the sheets_data a configuration form may submit for the active types
RegistryChoices(A) ==
    { << SheetEntry(Lower2(A), urlS1), SheetEntry(Upper2(A), urlS2) >>,
      << SheetEntry(Lower2(A), urlS2) >>,
      << SheetEntry(Lower2(A), urlS1), SheetEntry(Upper2(A), urlBad) >> }

\* the pairs of dataset types a behaviour exercises; every type is in one
TypePairs == { {"properties", "clients"}, {"users", "activity"}, {"transactions", "clients"} }

\* window bookkeeping: the first call's result, the time since it, and
\* whether a later call in the window was served that result although the
\* body of load_sheet_by_type would have computed another one
WindowAfterCall(w, served, fresh) ==
    IF w.has THEN [w EXCEPT !.stale = w.stale \/ fresh # w.result]
    ELSE [has |-> TRUE, result |-> served, age |-> 0, stale |-> FALSE]

\* a clear that spares the memoized load_sheet_by_type results
CacheDataClearKeepsSheets ==
    /\ cfgCache' = NoEntry
    /\ sheetCache' = sheetCache
    /\ hCache' = [k \in CallKeys |-> NoEntry]
    /\ dCache' = [k \in CallKeys |-> NoEntry]

\* st.cache_data.clear(): every memoized value of every function is dropped
CacheDataClear ==
    /\ cfgCache' = NoEntry
    /\ sheetCache' = [t \in Types |-> NoEntry]
    /\ hCache' = [k \in CallKeys |-> NoEntry]
    /\ dCache' = [k \in CallKeys |-> NoEntry]

dataFiles  == <<clientsBackup, propsBackup, usersFile>>
dataGhosts == <<fetchAge, goodLoad, lastSnapshot, addedIds, lastAdd>>

Init ==
    /\ activeTypes \in TypePairs
    /\ regFile = [state |-> "absent", sheets |-> <<>>]
    /\ cfgCache = NoEntry
    /\ sheetCache = [t \in Types |-> NoEntry]
    /\ remote \in [SheetIds -> {"up", "down"}]
    /\ savePc = "idle"
    /\ saveArg = <<>>
    /\ lastPut = "none"
    /\ regCommitted = <<>>
    /\ regBefore = <<>>
    /\ winA = [t \in Types |-> NoEntry]
    /\ FilterIdle
    /\ NavIdle
    /\ DataIdle
    /\ SideIdle

\* MultiSheetManager.load_sheet_by_type(sheet_type)
LoadSheet(t) ==
    /\ t \in activeTypes
    /\ sheetCache' = SheetCacheAfterLoad(t)
    /\ cfgCache' = CfgCacheAfterLoad(t)
    /\ winA' = [winA EXCEPT ![t] = WindowAfterCall(winA[t], LoadSheetByType(t), FetchSheet(t))]
    /\ UNCHANGED <<regFile, remote, savePc, saveArg, lastPut, regCommitted, regBefore,
                   activeTypes>>
    /\ UNCHANGED <<filterVars, navVars, dataVars, sideVars>>

\* MultiSheetManager.get_all_sheets_config()
GetConfig ==
    /\ cfgCache' = CfgCacheAfterGet
    /\ UNCHANGED <<regFile, sheetCache, remote, savePc, saveArg, lastPut, regCommitted,
                   regBefore, winA, activeTypes>>
    /\ UNCHANGED <<filterVars, navVars, dataVars, sideVars>>

\* Quantum seconds pass
Tick ==
    /\ cfgCache' = Aged(cfgCache, TTL_CONFIG)
    /\ sheetCache' = [t \in Types |-> Aged(sheetCache[t], TTL_SHEET)]
    /\ winA' = [t \in Types |-> Aged(winA[t], TTL_SHEET)]
    /\ hCache' = [k \in CallKeys |-> Aged(hCache[k], HandlerTtl)]
    /\ dCache' = [k \in CallKeys |-> Aged(dCache[k], TTL_DB)]
    /\ fetchAge' = AgedCapped(fetchAge)
    /\ UNCHANGED <<regFile, remote, savePc, saveArg, lastPut, regCommitted, regBefore,
                   activeTypes>>
    /\ UNCHANGED <<focus, dataFiles, goodLoad, lastSnapshot, addedIds, lastAdd>>
    /\ UNCHANGED <<filterVars, navVars, sideVars>>

\* the spreadsheet behind a sheet id becomes reachable or unreachable
RemoteChange(id) ==
    /\ remote' = [remote EXCEPT ![id] = IF remote[id] = "up" THEN "down" ELSE "up"]
    /\ UNCHANGED <<regFile, cfgCache, sheetCache, savePc, saveArg, lastPut, regCommitted,
                   regBefore, winA, activeTypes>>
    /\ UNCHANGED <<filterVars, navVars, dataVars, sideVars>>

\* save_sheets_config(sheets_data): open(config_file, 'w') truncates the file
SaveBegin(S) ==
    /\ savePc = "idle"
    /\ savePc' = "writing"
    /\ saveArg' = S
    /\ regFile' = [state |-> "partial", sheets |-> <<>>]
    /\ UNCHANGED <<cfgCache, sheetCache, remote, lastPut, regCommitted, regBefore,
                   winA, activeTypes>>
    /\ UNCHANGED <<filterVars, navVars, dataVars, sideVars>>

\* save_sheets_config(sheets_data): open() itself raises; the file is untouched
SaveOpenFails ==
    /\ savePc = "idle"
    /\ lastPut' = "failed"
    /\ UNCHANGED <<regFile, cfgCache, sheetCache, remote, savePc, saveArg, regCommitted,
                   regBefore, winA, activeTypes>>
    /\ UNCHANGED <<filterVars, navVars, dataVars, sideVars>>

\* json.dump completes, st.cache_data.clear(), return True
SaveFinish ==
    /\ savePc = "writing"
    /\ savePc' = "idle"
    /\ regFile' = [state |-> "ok", sheets |-> saveArg]
    /\ CacheDataClear
    /\ lastPut' = "ok"
    /\ regBefore' = regCommitted
    /\ regCommitted' = saveArg
    /\ winA' = [t \in Types |-> NoEntry]
    /\ UNCHANGED <<remote, saveArg, activeTypes>>
    /\ UNCHANGED <<focus, dataFiles, dataGhosts>>
    /\ UNCHANGED <<filterVars, navVars, sideVars>>

\* json.dump raises part-way (I/O error): the except branch returns False and
\* the file keeps what was written so far
SaveFail ==
    /\ savePc = "writing"
    /\ savePc' = "idle"
    /\ lastPut' = "failed"
    /\ UNCHANGED <<regFile, cfgCache, sheetCache, remote, saveArg, regCommitted, regBefore,
                   winA, activeTypes>>
    /\ UNCHANGED <<filterVars, navVars, dataVars, sideVars>>

Next ==
    \/ \E t \in Types : LoadSheet(t)
    \/ GetConfig
    \/ Tick
    \/ \E id \in SheetIds : RemoteChange(id)
    \/ \E S \in RegistryChoices(activeTypes) : SaveBegin(S)
    \/ SaveOpenFails
    \/ SaveFinish
    \/ SaveFail

Spec == Init /\ [][Next]_vars

\* the entries of a registry for one type
EntriesOfType(sheets, t) == {sheets[i] : i \in {j \in DOMAIN sheets : sheets[j].type = t}}

\* an answer of get_sheet_by_type that agrees with registry sheets: one of
\* its entries for t, or absent when it has none
AnswersFor(sheets, t, answer) ==
    IF EntriesOfType(sheets, t) = {} THEN ~answer.found
    ELSE answer \in EntriesOfType(sheets, t)

\* C4 as stated: every load_sheet_by_type call for a type made within the TTL
\* window of the first call returns the first call's result (an error too)
\* and issues no further remote fetch: as long as no time passes, a window
\* that is open stays the one calls are served from.
C4_WindowServedFromFirstCall ==
    [][\A t \in Types :
        (winA[t].has /\ ~Tick) =>
            (LoadSheetByType(t)' = winA[t].result /\ ~RemoteFetched(t)')]_vars

\* C4 amended: while the TTL window of the first call is open, and no
\* st.cache_data.clear() ended it early, a load_sheet_by_type call for the
\* type returns the first call's result (an error too) without a remote
\* fetch, and the entry it is served from was computed for that same type.
C4_WindowServedUnlessCleared ==
    \A t \in Types :
        winA[t].has =>
            /\ LoadSheetByType(t) = winA[t].result
            /\ ~RemoteFetched(t)
            /\ sheetCache[t].has
            /\ sheetCache[t].src.found => sheetCache[t].src.type = t

\* a failed fetch was memoized, the sheet became reachable, and a later call
\* in the window was still served the failure
C4_Witness ==
    \E t \in Types :
        /\ winA[t].has /\ winA[t].stale
        /\ ~winA[t].result.ok /\ winA[t].result.msg = "Error"
        /\ FetchSheet(t).ok

\* C6: after save_sheets_config(S) returned success, get_sheet_by_type(t)
\* answers from S alone, and every memoized load result was computed from S.
C6_PutReplacesAndInvalidates ==
    (savePc = "idle" /\ lastPut = "ok") =>
        \A t \in Types :
            /\ AnswersFor(saveArg, t, GetSheetByType(t))
            /\ sheetCache[t].has => AnswersFor(saveArg, t, sheetCache[t].src)

\* a type whose location the last successful save changed has been loaded
\* again, from the new location
C6_Witness ==
    /\ savePc = "idle" /\ lastPut = "ok"
    /\ \E t \in Types :
        /\ sheetCache[t].has /\ sheetCache[t].val.ok
        /\ FirstOfType(regBefore, t).found
        /\ FirstOfType(regBefore, t) # sheetCache[t].src

\* C7: a reader of the registry gets the complete previous registry or the
\* complete new one; after a failed save it gets the previous one.
C7_PutAtomicForReaders ==
    GetAllSheetsConfig \in
        {regCommitted} \cup (IF savePc = "writing" THEN {saveArg} ELSE {})

(***************************************************************************)
(* SpecData: the accessors the pages call for one dataset type, over a     *)
(* registry that lists that type: the sheet handler, the database accessor *)
(* on top of it (properties, clients, users), add_client and               *)
(* save_properties, while time passes and the sheet comes and goes.        *)
(***************************************************************************)
MaxAdds == 2

\* the workbook a data-entry user uploads
UploadDf == SnapB

\* the sessions that add a client: st.session_state.user of a sales agent
\* and of the owner
Actors == {[username |-> sAliceLow, role |-> "sales"],
           [username |-> sAdmin, role |-> "owner"]}

SalesActor == [username |-> sAliceLow, role |-> "sales"]

\* the client_data the sales form builds: assigned_to is the user's own name
FormData(actor) == [name |-> Cell(sJane), assigned_to |-> Cell(actor.username)]

\* an agent without a row in the clients sheet
sCarolLow == <<"c", "a", "r", "o", "l">>

\* the client_data add_client is given: no assigned_to, an empty one (a
\* form field left blank), one naming another agent, one naming an agent
\* the sheet has no row for
ClientDataChoices ==
    {[name |-> Cell(sJane)],
     [name |-> Cell(sJane), assigned_to |-> Cell(sEmpty)],
     [name |-> Cell(sJane), assigned_to |-> Cell(sBobLow)],
     [name |-> Cell(sJane), assigned_to |-> Cell(sCarolLow)]}

\* datetime.now().isoformat()
sNow == <<"n", "o", "w">>

\* client_data[field] = value
SetField(rec, field, value) ==
    [g \in DOMAIN rec \cup {field} |-> IF g = field THEN value ELSE rec[g]]

\* `not client_data.get('assigned_to')`: the key is missing or its text is empty
NoAssignee(data) ==
    \/ "assigned_to" \notin DOMAIN data
    \/ data["assigned_to"].na
    \/ data["assigned_to"].s = sEmpty

\* add_client, the auto-assignment that overwrites a supplied assignee
AutoAssignAlways(data, username, role) ==
    IF role = "sales" THEN SetField(data, "assigned_to", Cell(username)) ELSE data

\* add_client: "Auto-assign to sales user if applicable"
AutoAssign(data, username, role) ==
    IF NoAssignee(data) /\ role = "sales"
    THEN SetField(data, "assigned_to", Cell(username))
    ELSE data

\* load_clients(...)["next_id"]
NextIdOf(clients) == Len(clients) + 1

\* add_client: the record appended to existing_data['clients']
NewClient(data, username, role, nextId) ==
    SetField(SetField(SetField(SetField(AutoAssign(data, username, role),
        "client_id", nextId),
        "created_at", Cell(sNow)),
        "last_contact", Cell(sNow)),
        "conversion_stage", Cell(<<"L", "e", "a", "d">>))

\* whether a call runs the body of the sheet handler, and whether that body
\* reaches pd.read_excel
ChainRunsHandler(key, viaDb) == (viaDb => ~dCache[key].has) /\ ~hCache[key].has

ChainFetches(key, viaDb) == ChainRunsHandler(key, viaDb) /\ RemoteFetched(focus)

\* the memoized values after a call of the sheet handler (viaDb = FALSE) or
\* of the database accessor (viaDb = TRUE) with arguments key
CallCaches(key, viaDb, io) ==
    /\ dCache' = IF viaDb /\ ~dCache[key].has
                 THEN [dCache EXCEPT ![key] = [has |-> TRUE, val |-> DbBodyIo(key, io), age |-> 0]]
                 ELSE dCache
    /\ hCache' = IF ChainRunsHandler(key, viaDb)
                 THEN [hCache EXCEPT ![key] = [has |-> TRUE, val |-> HandlerBody(key), age |-> 0]]
                 ELSE hCache
    /\ sheetCache' = IF ChainRunsHandler(key, viaDb) THEN SheetCacheAfterLoad(focus)
                     ELSE sheetCache
    /\ cfgCache' = IF ChainRunsHandler(key, viaDb) THEN CfgCacheAfterLoad(focus)
                   ELSE cfgCache
    /\ fetchAge' = IF ChainFetches(key, viaDb) THEN [has |-> TRUE, age |-> 0] ELSE fetchAge
    /\ lastSnapshot' = IF ChainFetches(key, viaDb) /\ FetchSheet(focus).ok
                       THEN [has |-> TRUE, df |-> FetchSheet(focus).df]
                       ELSE lastSnapshot

registryVars == <<regFile, remote, savePc, saveArg, lastPut, regCommitted, regBefore,
                  winA, activeTypes>>

DataInit ==
    /\ focus \in Types
    /\ activeTypes = {focus}
    /\ regFile = [state |-> "ok", sheets |-> <<SheetEntry(focus, urlS1)>>]
    /\ regCommitted = <<SheetEntry(focus, urlS1)>>
    /\ cfgCache = NoEntry
    /\ sheetCache = [t \in Types |-> NoEntry]
    /\ remote \in {[id \in SheetIds |-> IF id = "S1" THEN a ELSE "down"] : a \in {"up", "down"}}
    /\ savePc = "idle"
    /\ saveArg = <<>>
    /\ lastPut = "none"
    /\ regBefore = <<>>
    /\ winA = [t \in Types |-> NoEntry]
    /\ hCache = [k \in CallKeys |-> NoEntry]
    /\ dCache = [k \in CallKeys |-> NoEntry]
    /\ clientsBackup = NoBackup
    /\ propsBackup = NoPropsBackup
    /\ usersFile = NoUsersFile
    /\ fetchAge = NoAge
    /\ goodLoad = FALSE
    /\ lastSnapshot = [has |-> FALSE, df |-> EmptyDf]
    /\ addedIds = <<>>
    /\ lastAdd = NoAdd
    /\ FilterIdle
    /\ NavIdle
    /\ SideIdle

\* a page calls the sheet handler of the focus type
HandlerLoad(key) ==
    /\ key \in HandlerKeys
    /\ CallCaches(key, FALSE, "ok")
    /\ goodLoad' = (goodLoad \/ (DbKeys = {} /\ ~hCache[key].has
                                    /\ ~IsEmptyValue(HandlerBody(key))))
    /\ UNCHANGED <<focus, dataFiles, addedIds, lastAdd>>
    /\ UNCHANGED <<registryVars, filterVars, navVars, sideVars>>

\* a page calls the database accessor of the focus type
DbLoad(key, io) ==
    /\ key \in DbKeys
    /\ CallCaches(key, TRUE, io)
    /\ clientsBackup' = IF dCache[key].has \/ io = "fail" THEN clientsBackup
                        ELSE ClientsBackupAfterDb(key)
    /\ propsBackup' = IF dCache[key].has \/ io = "fail" THEN propsBackup
                      ELSE PropsBackupAfterDb(key)
    /\ usersFile' = IF dCache[key].has \/ io = "fail" THEN usersFile
                    ELSE UsersFileAfterDb(key)
    /\ goodLoad' = (goodLoad \/ (~dCache[key].has /\ ~IsEmptyValue(HandlerValue(key))))
    /\ UNCHANGED <<focus, addedIds, lastAdd>>
    /\ UNCHANGED <<registryVars, filterVars, navVars, sideVars>>

\* ClientDatabase.add_client(client_data, username) in the session of actor:
\* load_clients("system", "owner"), the auto-assignment, client_id = next_id,
\* the stamps, append, write the backup file, return client_id
AddClient(actor, data, io) ==
    /\ focus = "clients"
    /\ Len(addedIds) < MaxAdds
    /\ CallCaches(KeySystem, TRUE, io)
    /\ LET clients == DbValueIo(KeySystem, io)
           rec     == NewClient(data, actor.username, actor.role, NextIdOf(clients))
       IN  /\ clientsBackup' = IF io = "ok"
                               THEN JsonWrite(Append(clients, rec))
                               ELSE clientsBackup
           /\ addedIds' = Append(addedIds, rec["client_id"])
           /\ lastAdd' = [has |-> TRUE, data |-> data, actor |-> actor, wrote |-> io = "ok",
                          count |-> Len(clients), returned |-> rec["client_id"]]
    /\ goodLoad' = (goodLoad \/ (~dCache[KeySystem].has /\ ~IsEmptyValue(HandlerValue(KeySystem))))
    /\ UNCHANGED <<focus, propsBackup, usersFile>>
    /\ UNCHANGED <<registryVars, filterVars, navVars, sideVars>>

\* PropertyDatabase.save_properties(df) from the data-entry page
SaveProperties(io) ==
    /\ focus = "properties"
    /\ IF io = "ok"
       THEN /\ propsBackup' = [exists |-> TRUE, df |-> XlsxWrite(UploadDf)]
            /\ CacheDataClear
       ELSE UNCHANGED <<propsBackup, cfgCache, sheetCache, hCache, dCache>>
    /\ UNCHANGED <<focus, clientsBackup, usersFile, dataGhosts>>
    /\ UNCHANGED <<registryVars, filterVars, navVars, sideVars>>

DataNext ==
    \/ \E key \in CallKeys : HandlerLoad(key)
    \/ \E key \in CallKeys, io \in IoChoices : DbLoad(key, io)
    \/ \E io \in IoChoices : AddClient(SalesActor, FormData(SalesActor), io)
    \/ \E io \in IoChoices : SaveProperties(io)
    \/ Tick
    \/ RemoteChange("S1")

SpecData == DataInit /\ [][DataNext]_vars

\* the accessor the pages load the focus type through, and its arguments
PublicViaDb == DbKeys # {}
PublicKeys  == IF PublicViaDb THEN DbKeys ELSE HandlerKeys
PublicBody(key) == IF PublicViaDb THEN DbBody(key) ELSE HandlerBody(key)

\* C5: once 300 s have passed since the previous remote fetch of a dataset
\* type, a load through its public accessor issues a new remote fetch.
C5_FetchAgainAfterTtl ==
    (fetchAge.has /\ fetchAge.age >= TTL_SHEET) =>
        \A key \in PublicKeys : ChainFetches(key, PublicViaDb)

\* C8: once a load through the public accessor returned remote records, a
\* later load through it by an all-seeing caller that finds the remote fetch
\* failing does not come back empty: it returns what was backed up.
C8_FallbackServesBackup ==
    goodLoad =>
        \A key \in PublicKeys :
            (key.role # "sales" /\ ChainRunsHandler(key, PublicViaDb)
                /\ ~LoadSheetByType(focus).ok) =>
                    ~IsEmptyValue(PublicBody(key))

\* C9: whenever the clients backup file has been written, it contains every
\* record of the most recent successful remote snapshot.
C9_BackupHoldsWholeSnapshot ==
    (focus = "clients" /\ lastSnapshot.has /\ clientsBackup.exists) =>
        \A rec \in Range(SheetClientsOf(lastSnapshot.df, sEmpty, "None")) :
            rec \in Range(clientsBackup.clients)

\* C10: each client_id add_client returns is strictly greater than every
\* client_id an earlier add returned.
C10_ClientIdsIncrease ==
    \A i, j \in DOMAIN addedIds : i < j => addedIds[i] < addedIds[j]

(***************************************************************************)
(* SpecAdd: add_client with every kind of client_data and acting role, on  *)
(* top of the clients accessor and a sheet that comes and goes.            *)
(***************************************************************************)
AddInit == DataInit /\ focus = "clients"

AddNext ==
    \/ \E actor \in Actors, data \in ClientDataChoices, io \in IoChoices :
           AddClient(actor, data, io)
    \/ \E key \in CallKeys, io \in IoChoices : DbLoad(key, io)
    \/ RemoteChange("S1")

SpecAdd == AddInit /\ [][AddNext]_vars

\* the record the backup file holds last
StoredLast == clientsBackup.clients[Len(clientsBackup.clients)]

\* whether client_data names an assignee
Supplied(data) == ~NoAssignee(data)

\* what add_client leaves behind: the stored record, the returned id
AddClientOutcome ==
    (lastAdd.has /\ lastAdd.wrote) =>
        /\ clientsBackup.exists /\ Len(clientsBackup.clients) = lastAdd.count + 1
        /\ StoredLast["conversion_stage"] = Cell(<<"L", "e", "a", "d">>)
        /\ {"created_at", "last_contact"} \subseteq DOMAIN StoredLast
        /\ ~StoredLast["created_at"].na /\ ~StoredLast["last_contact"].na
        /\ StoredLast["client_id"] = lastAdd.count + 1
        /\ lastAdd.returned = lastAdd.count + 1
        /\ (~Supplied(lastAdd.data) /\ lastAdd.actor.role = "sales") =>
               StoredLast["assigned_to"] = Cell(lastAdd.actor.username)
        /\ ("assigned_to" \notin DOMAIN lastAdd.data /\ lastAdd.actor.role # "sales") =>
               "assigned_to" \notin DOMAIN StoredLast
        /\ Supplied(lastAdd.data) =>
               StoredLast["assigned_to"] = lastAdd.data["assigned_to"]
        /\ \A f \in DOMAIN lastAdd.data \ {"assigned_to"} : StoredLast[f] = lastAdd.data[f]

\* C11: after add_client the record stored last carries conversion_stage
\* 'Lead', both stamps, and a client_id one above the number of records the
\* all-seeing load returned before the add, which is also the id returned;
\* its assigned_to is the acting identity when none was supplied and the
\* acting role is sales, stays absent when none was given and the role is
\* not sales, and is the supplied one otherwise.
C11_AddClientEndToEnd ==
    [][addedIds' # addedIds => AddClientOutcome']_vars

\* a sales agent added a client without an assignee on top of loaded records
C11_Witness ==
    /\ lastAdd.has /\ lastAdd.wrote /\ lastAdd.count > 0
    /\ lastAdd.actor.role = "sales"
    /\ "assigned_to" \notin DOMAIN lastAdd.data
    /\ Len(clientsBackup.clients) = lastAdd.count + 1
    /\ "created_at" \in DOMAIN StoredLast
    /\ StoredLast["assigned_to"] = Cell(sAliceLow)

\* C12: when the body of a database accessor runs, the remote fetch succeeds
\* with records and the write of the backup file fails, the accessor still
\* returns the records the sheet handler gave it; and add_client returns the
\* id it assigned whether or not its backup write succeeded.
C12_WriteFailureKeepsRemote ==
    /\ \A key \in DbKeys :
           (~dCache[key].has /\ ~hCache[key].has /\ LoadSheetByType(focus).ok
               /\ ~IsEmptyValue(HandlerBody(key))) =>
                   DbBodyIo(key, "fail") = HandlerBody(key)
    /\ lastAdd.has => lastAdd.returned = lastAdd.count + 1

(***************************************************************************)
(* SpecFetchOutcome: one call of load_sheet_by_type with nothing memoized, *)
(* for each content of data/multi_sheets_config.json and each thing the    *)
(* export location can answer.                                             *)
(***************************************************************************)
\* an item of the "sheets" list: a JSON object (type "" when the key is
\* missing, hasUrl FALSE when "url" is missing) or a JSON text
SheetItem(t, hasUrl, url) == [kind |-> "object", type |-> t, hasUrl |-> hasUrl, url |-> url]
TextItem == [kind |-> "text", type |-> "", hasUrl |-> FALSE, url |-> ""]

\* what json.load gives for the file: an object with or without "sheets",
\* whose "sheets" is a list or null, or a document that is a list
ObjectDoc(items) == [kind |-> "object", hasSheets |-> TRUE, sheetsKind |-> "list", items |-> items]
NullSheetsDoc    == [kind |-> "object", hasSheets |-> TRUE, sheetsKind |-> "null", items |-> <<>>]
NoSheetsDoc      == [kind |-> "object", hasSheets |-> FALSE, sheetsKind |-> "list", items |-> <<>>]
ListDoc          == [kind |-> "list", hasSheets |-> FALSE, sheetsKind |-> "list", items |-> <<>>]

\* get_all_sheets_config() on a file that is absent, that json.load rejects
\* ("garbled"), or that holds the document doc
ConfigOfFile(file) ==
    IF file.state = "json" THEN file.doc ELSE ObjectDoc(<<>>)

\* `for sheet in config.get("sheets", []): if sheet.get("type") == sheet_type`:
\* raises on a config that is no dict, on "sheets": null, on an item that
\* is no dict before the type is found
\* a lookup that takes the first item whatever its type
ScanItemsAnyType(items, t) ==
    IF items = <<>> THEN [raised |-> FALSE, sheet |-> NoSheet, hasUrl |-> FALSE]
    ELSE IF Head(items).kind # "object" THEN [raised |-> TRUE, sheet |-> NoSheet, hasUrl |-> FALSE]
    ELSE [raised |-> FALSE, sheet |-> SheetEntry(t, Head(items).url),
          hasUrl |-> Head(items).hasUrl]

RECURSIVE ScanItems(_, _)
ScanItems(items, t) ==
    IF items = <<>> THEN [raised |-> FALSE, sheet |-> NoSheet, hasUrl |-> FALSE]
    ELSE IF Head(items).kind # "object" THEN [raised |-> TRUE, sheet |-> NoSheet, hasUrl |-> FALSE]
    ELSE IF Head(items).type = t
         THEN [raised |-> FALSE, sheet |-> SheetEntry(t, Head(items).url),
               hasUrl |-> Head(items).hasUrl]
    ELSE ScanItems(Tail(items), t)

SheetByTypeOf(config, t) ==
    IF config.kind # "object" THEN [raised |-> TRUE, sheet |-> NoSheet, hasUrl |-> FALSE]
    ELSE IF ~config.hasSheets THEN [raised |-> FALSE, sheet |-> NoSheet, hasUrl |-> FALSE]
    ELSE IF config.sheetsKind # "list" THEN [raised |-> TRUE, sheet |-> NoSheet, hasUrl |-> FALSE]
    ELSE ScanItems(config.items, t)

Raised == [kind |-> "raised", msg |-> "", df |-> EmptyDf]
Failure(msg) == [kind |-> "failure", msg |-> msg, df |-> EmptyDf]

\* the body of load_sheet_by_type(t): the lookup runs before the try, the
\* rest inside it; answer is what pd.read_excel does with the export location
LoadSheetOutcome(file, t, answer) ==
    LET got == SheetByTypeOf(ConfigOfFile(file), t)
        sid == ExtractSheetId(got.sheet.url)
    IN  IF got.raised THEN Raised
        ELSE IF ~got.sheet.found THEN Failure("not configured")
        ELSE IF ~got.hasUrl \/ got.sheet.url = "" THEN Failure("URL not configured")
        ELSE IF ~sid.found THEN Failure("Invalid URL format")
        ELSE IF answer \in {"unreachable", "unparsable"} THEN Failure("Error")
        ELSE IF answer = "zero rows" THEN Failure("Sheet is empty")
        ELSE [kind |-> "table", msg |-> "Successfully loaded", df |-> SnapOf(sid.id)]

Answers == {"unreachable", "unparsable", "zero rows", "rows"}

ConfigFiles ==
    {[state |-> "absent", doc |-> ObjectDoc(<<>>)],
     [state |-> "garbled", doc |-> ObjectDoc(<<>>)]}
    \cup {[state |-> "json", doc |-> d] :
            d \in {ListDoc, NullSheetsDoc, NoSheetsDoc, ObjectDoc(<<>>),
                   ObjectDoc(<<TextItem>>),
                   ObjectDoc(<<SheetItem("", TRUE, urlS1)>>),
                   ObjectDoc(<<SheetItem("clients", FALSE, "")>>),
                   ObjectDoc(<<SheetItem("clients", TRUE, "")>>),
                   ObjectDoc(<<SheetItem("clients", TRUE, urlBad)>>),
                   ObjectDoc(<<SheetItem("clients", TRUE, urlS1)>>),
                   ObjectDoc(<<SheetItem("properties", TRUE, urlS2), TextItem>>)}}

FetchOutcomeInit ==
    /\ evalIn \in [file : ConfigFiles, type : Types, answer : Answers]
    /\ evalOut = <<>>
    /\ evalPc = "start"
    /\ PanelIdle /\ RaceIdle /\ LogIdle /\ FilterIdle /\ NavIdle /\ FetchIdle /\ DataIdle

CallLoadSheet ==
    /\ evalPc = "start"
    /\ evalOut' = LoadSheetOutcome(evalIn.file, evalIn.type, evalIn.answer)
    /\ evalPc' = "done"
    /\ UNCHANGED <<evalIn, panelVars, raceVars, logVars, filterVars, navVars, fetchVars, dataVars>>

SpecFetchOutcome == FetchOutcomeInit /\ [][CallLoadSheet]_vars

\* C13: load_sheet_by_type ends with a table or with a failure and a
\* reason, never with an exception, whatever the registry file holds and
\* whatever the export location answers; zero rows end in a failure.
C13_TypedOutcomeAlways ==
    evalPc = "done" =>
        /\ evalOut.kind \in {"table", "failure"}
        /\ (evalIn.answer = "zero rows") => evalOut.kind = "failure"

(***************************************************************************)
(* SpecNormalize: load_properties and load_clients (all-seeing caller) on  *)
(* one fetched snapshot, for header rows drawn from aliases, canonical     *)
(* names, padded and differently-cased names and an unknown name.  The     *)
(* trimmed header names of a snapshot are distinct.                        *)
(***************************************************************************)
MaxCols == 3
MaxSnapRows == 2

PropertiesHeaderPool ==
    {"unit_type", "property_type", " property_type", "type", "Type",
     "price_total", "price", "value", "notes"}

ClientsHeaderPool ==
    {"assigned_to", " assigned_to ", "agent", "agent ", "sales_agent", "Agent",
     "name", "full_name", "notes"}

HeaderRows(pool) ==
    {h \in UNION {[1..n -> pool] : n \in 1..MaxCols} :
        \A j, k \in DOMAIN h : j # k => StripHeader(h[j]) # StripHeader(h[k])}

DigitChar(j) == CASE j = 1 -> "1" [] j = 2 -> "2" [] j = 3 -> "3" [] OTHER -> "4"

\* the cells under the header: digits in row 1, a text that is no number in
\* row 2, different in every column
CellAt(i, j) == IF i = 1 THEN Cell(<<DigitChar(j)>>) ELSE Cell(<<"x", DigitChar(j)>>)

SnapshotOf(header, n) ==
    [columns |-> header,
     rows |-> [i \in 1..n |-> [j \in DOMAIN header |-> CellAt(i, j)]]]

Snapshots(pool) == {SnapshotOf(h, n) : h \in HeaderRows(pool), n \in 1..MaxSnapRows}

Loaded(df) == [ok |-> TRUE, df |-> df, msg |-> "Successfully loaded"]

NormalizeInit ==
    /\ evalIn \in [kind : {"properties"}, df : Snapshots(PropertiesHeaderPool)]
                 \cup [kind : {"clients"}, df : Snapshots(ClientsHeaderPool)]
    /\ evalOut = <<>>
    /\ evalPc = "start"
    /\ PanelIdle /\ RaceIdle /\ LogIdle /\ FilterIdle /\ NavIdle /\ FetchIdle /\ DataIdle

\* the handler's load on the fetched snapshot: a DataFrame for properties,
\* the list of records for clients
Normalize ==
    /\ evalPc = "start"
    /\ evalOut' = IF evalIn.kind = "properties"
                  THEN [df |-> PropertiesOf(Loaded(evalIn.df)), records |-> <<>>]
                  ELSE [df |-> EmptyDf,
                        records |-> ClientsOf(Loaded(evalIn.df), sEmpty, "None")]
    /\ evalPc' = "done"
    /\ UNCHANGED <<evalIn, panelVars, raceVars, logVars, filterVars, navVars, fetchVars, dataVars>>

SpecNormalize == NormalizeInit /\ [][Normalize]_vars

MappingOf(kind) == IF kind = "properties" THEN PropertiesColumnMapping ELSE ClientsColumnMapping

Trimmed == StripColumns(evalIn.df.columns)

\* the position in aliases of the first one that is a trimmed header
FirstPresent(aliases) ==
    CHOOSE k \in DOMAIN aliases :
        /\ InColumns(aliases[k], Trimmed)
        /\ \A m \in 1..(k - 1) : ~InColumns(aliases[m], Trimmed)

\* the trimmed header whose column the canonical field f is read from:
\* f itself if present, else the first alias present, else none
SourceOf(f, aliases) ==
    IF InColumns(f, Trimmed) THEN [has |-> TRUE, name |-> f]
    ELSE IF \E k \in DOMAIN aliases : InColumns(aliases[k], Trimmed)
         THEN [has |-> TRUE, name |-> aliases[FirstPresent(aliases)]]
    ELSE [has |-> FALSE, name |-> ""]

\* the names of the output's fields, by input column
OutColumns ==
    IF evalIn.kind = "properties" THEN evalOut.df.columns
    ELSE [j \in DOMAIN Trimmed |->
            CHOOSE c \in DOMAIN evalOut.records[1] :
                \A i \in DOMAIN evalOut.records : evalOut.records[i][c] = evalIn.df.rows[i][j]]

\* C14: for every canonical field f of the snapshot's dataset type, the
\* output column named f is the input column whose trimmed header is f when
\* there is one, else the one whose trimmed header is the first alias of f
\* (in the order of f's alias list) that occurs among the trimmed headers,
\* else there is no column f; headers match exactly and case-sensitively
\* after trimming.
C14_FirstAliasInListOrderWins ==
    evalPc = "done" =>
        \A e \in Range(MappingOf(evalIn.kind)) :
            LET f   == e[1]
                src == SourceOf(f, e[2])
            IN  \A j \in DOMAIN Trimmed :
                    (OutColumns[j] = f) <=> (src.has /\ Trimmed[j] = src.name)

\* "type" stands before " property_type" in the header row, and the
\* property_type column is the one that became unit_type
C14_Witness ==
    /\ evalPc = "done" /\ evalIn.kind = "properties"
    /\ Len(evalIn.df.columns) >= 2
    /\ evalIn.df.columns[1] = "type" /\ evalIn.df.columns[2] = " property_type"
    /\ evalOut.df.columns[2] = "unit_type" /\ evalOut.df.columns[1] = "type"

\* whether input column j is the alias that a canonical field is read from
WinningAlias(j) ==
    \E e \in Range(MappingOf(evalIn.kind)) :
        /\ ~InColumns(e[1], Trimmed)
        /\ SourceOf(e[1], e[2]).has
        /\ Trimmed[j] = SourceOf(e[1], e[2]).name

\* as many rows (records) as the snapshot, in as many columns (fields)
KeepsShape ==
    IF evalIn.kind = "properties"
    THEN /\ Len(evalOut.df.rows) = Len(evalIn.df.rows)
         /\ Len(evalOut.df.columns) = Len(evalIn.df.columns)
         /\ \A i \in DOMAIN evalOut.df.rows :
                Len(evalOut.df.rows[i]) = Len(evalIn.df.columns)
    ELSE /\ Len(evalOut.records) = Len(evalIn.df.rows)
         /\ \A i \in DOMAIN evalOut.records :
                Cardinality(DOMAIN evalOut.records[i]) = Len(evalIn.df.columns)

\* input column j is an output column of the same trimmed name
KeepsName(j) ==
    IF evalIn.kind = "properties" THEN evalOut.df.columns[j] = Trimmed[j]
    ELSE \A i \in DOMAIN evalOut.records : Trimmed[j] \in DOMAIN evalOut.records[i]

\* the output's value for row i of input column j, which kept its name
KeptValue(i, j) ==
    IF evalIn.kind = "properties" THEN evalOut.df.rows[i][j]
    ELSE evalOut.records[i][Trimmed[j]]

MaxMetricRows == 2

DigitVal(c) ==
    CASE c = "0" -> 0 [] c = "1" -> 1 [] c = "2" -> 2 [] c = "3" -> 3 [] c = "4" -> 4
      [] c = "5" -> 5 [] c = "6" -> 6 [] c = "7" -> 7 [] c = "8" -> 8 [] OTHER -> 9

\* the number a text of digits stands for
RECURSIVE NumOf(_)
NumOf(s) == IF s = <<>> THEN 0 ELSE 10 * NumOf(SubSeq(s, 1, Len(s) - 1)) + DigitVal(s[Len(s)])

\* float(c.get('value', 0)): 0 for a missing key, nan for NaN, the number
\* for a numeric text, ValueError for any other text
FloatOfValue(rec) ==
    IF "value" \notin DOMAIN rec THEN [raised |-> FALSE, nan |-> FALSE, n |-> 0]
    ELSE IF rec["value"].na THEN [raised |-> FALSE, nan |-> TRUE, n |-> 0]
    ELSE IF IsNumericText(rec["value"].s)
         THEN [raised |-> FALSE, nan |-> FALSE, n |-> NumOf(rec["value"].s)]
    ELSE [raised |-> TRUE, nan |-> FALSE, n |-> 0]

\* sum(float(c.get('value', 0)) for c in clients)
RECURSIVE SumOfValues(_)
SumOfValues(clients) ==
    IF clients = <<>> THEN [raised |-> FALSE, nan |-> FALSE, n |-> 0]
    ELSE LET h == FloatOfValue(Head(clients))
             t == SumOfValues(Tail(clients))
         IN  IF h.raised \/ t.raised THEN [raised |-> TRUE, nan |-> FALSE, n |-> 0]
             ELSE IF h.nan \/ t.nan THEN [raised |-> FALSE, nan |-> TRUE, n |-> 0]
             ELSE [raised |-> FALSE, nan |-> FALSE, n |-> h.n + t.n]

sUnknown == <<"U", "n", "k", "n", "o", "w", "n">>
sActive  == <<"A", "c", "t", "i", "v", "e">>

\* client.get(field, 'Unknown')
FieldOr(rec, field) == IF field \in DOMAIN rec THEN rec[field] ELSE Cell(sUnknown)

\* by_stage / by_source: how many records carry each value of the field
CountBy(clients, field) ==
    [k \in {FieldOr(clients[i], field) : i \in DOMAIN clients} |->
        Cardinality({i \in DOMAIN clients : FieldOr(clients[i], field) = k})]

NoNumber == [nan |-> FALSE, n |-> 0]

\* ClientDatabase.get_client_metrics, given load_clients(...)["clients"]
GetClientMetrics(clients) ==
    IF clients = <<>>
    THEN [raised |-> FALSE, total |-> 0, active |-> 0, total_value |-> NoNumber,
          by_stage |-> <<>>, by_source |-> <<>>]
    ELSE IF SumOfValues(clients).raised
    THEN [raised |-> TRUE, total |-> 0, active |-> 0, total_value |-> NoNumber,
          by_stage |-> <<>>, by_source |-> <<>>]
    ELSE [raised |-> FALSE,
          total |-> Len(clients),
          active |-> Cardinality({i \in DOMAIN clients :
                        "status" \in DOMAIN clients[i] /\ clients[i]["status"] = Cell(sActive)}),
          total_value |-> [nan |-> SumOfValues(clients).nan, n |-> SumOfValues(clients).n],
          by_stage |-> CountBy(clients, "conversion_stage"),
          by_source |-> CountBy(clients, "source")]

\* the first name of the list that is a column, "" if none
RECURSIVE FirstColumnOf(_, _)
FirstColumnOf(names, cols) ==
    IF names = <<>> THEN ""
    ELSE IF InColumns(Head(names), cols) THEN Head(names)
    ELSE FirstColumnOf(Tail(names), cols)

\* Series.sum() and the count Series.mean() divides by: NaN cells are skipped
RECURSIVE SumSkipNa(_, _)
SumSkipNa(rows, j) ==
    IF rows = <<>> THEN [sum |-> 0, count |-> 0]
    ELSE LET t == SumSkipNa(Tail(rows), j)
         IN  IF Head(rows)[j].na THEN t
             ELSE [sum |-> t.sum + NumOf(Head(rows)[j].s), count |-> t.count + 1]

\* df[col].astype(str).str.contains(pattern, case=False, na=False) row count
CountContains(df, col, subs) ==
    Cardinality({i \in DOMAIN df.rows :
        \E sub \in subs :
            ContainsIgnoreCase(sub, AsTypeStr(df.rows[i][ColumnIndex(col, df.columns)]))})

\* PropertyDatabase.get_inventory_metrics, given load_properties(); the mean
\* is kept as the sum and the count it is the quotient of
GetInventoryMetrics(df) ==
    IF df.rows = <<>>
    THEN [raised |-> FALSE, total_units |-> 0, available_units |-> 0, sold_units |-> 0,
          total_value |-> NoNumber, avg_price |-> [sum |-> 0, count |-> 1]]
    ELSE LET status_col == FirstColumnOf(<<"status", "unit_status", "availability">>, df.columns)
             price_col  == FirstColumnOf(<<"price_total", "price", "value">>, df.columns)
             priced     == SumSkipNa(df.rows, ColumnIndex(price_col, df.columns))
         IN  [raised |-> FALSE,
              total_units |-> Len(df.rows),
              available_units |->
                  IF status_col # ""
                  THEN CountContains(df, status_col, {<<"a", "v", "a", "i", "l", "a", "b", "l", "e">>})
                  ELSE Len(df.rows),
              sold_units |->
                  IF status_col # ""
                  THEN CountContains(df, status_col,
                           {<<"s", "o", "l", "d">>, <<"r", "e", "n", "t", "e", "d">>})
                  ELSE 0,
              total_value |-> IF price_col # "" THEN [nan |-> FALSE, n |-> priced.sum]
                              ELSE NoNumber,
              avg_price |-> IF price_col # "" THEN priced ELSE [sum |-> 0, count |-> 1]]

ValueCells == {NaN, Cell(<<"1", "0">>), Cell(<<"2", "5">>), Cell(<<"n", "/", "a">>)}

StatusCells(kind) ==
    IF kind = "clients" THEN {Cell(sActive), Cell(<<"L", "o", "s", "t">>)}
    ELSE {Cell(<<"A", "v", "a", "i", "l", "a", "b", "l", "e">>), Cell(<<"S", "o", "l", "d">>)}

\* the header of the amount column in the sheet: the clients' value, an
\* alias of the properties' price_total
AmountHeader(kind) == IF kind = "clients" THEN "value" ELSE "price"

MetricSnapshots(kind) ==
    {[columns |-> <<"name", "status", AmountHeader(kind)>>, rows |-> r] :
        r \in UNION {[1..n -> {<<NameCell(1), st, v>> : st \in StatusCells(kind), v \in ValueCells}] :
                        n \in 1..MaxMetricRows}}
    \cup {[columns |-> <<"name", "status">>, rows |-> r] :
        r \in UNION {[1..n -> {<<NameCell(1), st>> : st \in StatusCells(kind)}] :
                        n \in 1..MaxMetricRows}}

MetricsInit ==
    /\ evalIn \in UNION {[kind : {k}, df : MetricSnapshots(k)] : k \in {"clients", "properties"}}
    /\ evalOut = <<>>
    /\ evalPc = "start"
    /\ PanelIdle /\ RaceIdle /\ LogIdle /\ FilterIdle /\ NavIdle /\ FetchIdle /\ DataIdle

\* the owner's dashboard: load through the database accessor, then the metrics
ComputeMetrics ==
    /\ evalPc = "start"
    /\ evalOut' =
          IF evalIn.kind = "clients"
          THEN LET clients == DbClientsOf(ClientsOf(Loaded(evalIn.df), sAdmin, "owner"),
                                         NoBackup, sAdmin, "owner")
               IN  [records |-> clients, df |-> EmptyDf, metrics |-> GetClientMetrics(clients)]
          ELSE LET df == PropertiesOf(Loaded(evalIn.df))
               IN  [records |-> <<>>, df |-> df, metrics |-> GetInventoryMetrics(df)]
    /\ evalPc' = "done"
    /\ UNCHANGED <<evalIn, panelVars, raceVars, logVars, filterVars, navVars, fetchVars, dataVars>>

SpecMetrics == MetricsInit /\ [][ComputeMetrics]_vars

HasAmount == Len(evalIn.df.columns) = 3

\* whether row i of the snapshot has a number in its amount column
AmountSet(i) ==
    HasAmount /\ ~evalIn.df.rows[i][3].na /\ IsNumericText(evalIn.df.rows[i][3].s)

\* the sum of the amounts that are set in rows 1..n of the snapshot
RECURSIVE SetSum(_)
SetSum(n) ==
    IF n = 0 THEN 0
    ELSE SetSum(n - 1) + (IF AmountSet(n) THEN NumOf(evalIn.df.rows[n][3].s) ELSE 0)

SetCount == Cardinality({i \in DOMAIN evalIn.df.rows : AmountSet(i)})

\* the amount field of record i of the loaded data
LoadedAmount(i) ==
    IF evalIn.kind = "clients" THEN evalOut.records[i]["value"]
    ELSE evalOut.df.rows[i][ColumnIndex("price_total", evalOut.df.columns)]

\* C16: the amount of a loaded record is unset exactly when its source cell
\* holds no number; the metrics do not raise; total_value is the sum of the
\* amounts that are set, and avg_price is that sum over their count.
C16_AggregatesSkipUnset ==
    evalPc = "done" =>
        /\ ~evalOut.metrics.raised
        /\ HasAmount => \A i \in DOMAIN evalIn.df.rows : LoadedAmount(i).na <=> ~AmountSet(i)
        /\ ~evalOut.metrics.total_value.nan
        /\ evalOut.metrics.total_value.n = SetSum(Len(evalIn.df.rows))
        /\ (evalIn.kind = "properties" /\ HasAmount) =>
               evalOut.metrics.avg_price = [sum |-> SetSum(Len(evalIn.df.rows)), count |-> SetCount]

(***************************************************************************)
(* SpecUnconfigured: every handler's load, and the aggregates on top, when *)
(* the registry file lists no sheet of the handler's type.                 *)
(***************************************************************************)
\* (df, message) as the handlers unpack it
AsResult(out) == [ok |-> out.kind = "table", df |-> out.df, msg |-> out.msg]

\* registry files without an entry of type t: no file, a file json.load
\* rejects, an empty registry, and registries of one other type
UnconfiguredFiles(t) ==
    {[state |-> "absent", doc |-> ObjectDoc(<<>>)],
     [state |-> "garbled", doc |-> ObjectDoc(<<>>)],
     [state |-> "json", doc |-> ObjectDoc(<<>>)],
     [state |-> "json", doc |-> NoSheetsDoc]}
    \cup {[state |-> "json", doc |-> ObjectDoc(<<SheetItem(o, TRUE, urlS1)>>)] :
            o \in Types \ {t}}

\* ClientsSheetHandler.get_stats, given load_clients(...); value_counts
\* leaves NaN out
GetStats(clients) ==
    IF clients = <<>>
    THEN [total |-> 0, active |-> 0, by_status |-> <<>>, by_source |-> <<>>]
    ELSE LET Counts(field) ==
                 IF field \notin DOMAIN clients[1] THEN <<>>
                 ELSE [k \in {clients[i][field] : i \in DOMAIN clients} \ {NaN} |->
                         Cardinality({i \in DOMAIN clients : clients[i][field] = k})]
         IN  [total |-> Len(clients),
              active |-> IF "status" \in DOMAIN clients[1]
                         THEN Cardinality({i \in DOMAIN clients :
                                              clients[i]["status"] = Cell(sActive)})
                         ELSE 0,
              by_status |-> Counts("status"),
              by_source |-> Counts("source")]

\* the handler of type t on (df, message)
HandlerOf(t, res) ==
    CASE t = "properties"   -> PropertiesOf(res)
      [] t = "clients"      -> ClientsOf(res, sAdmin, "owner")
      [] t = "users"        -> UsersOf(res)
      [] t = "activity"     -> ActivityOf(res, KeyLimit100.limit)
      [] OTHER              -> TransactionsOf(res)

\* whether a handler's value is its empty one: [] / {} / an empty DataFrame
IsNoData(t, v) == IF t \in {"clients", "users"} THEN v = <<>> ELSE v.rows = <<>>

UnconfiguredInit ==
    /\ evalIn \in UNION {[file : UnconfiguredFiles(t), type : {t}, answer : Answers] :
                            t \in Types}
    /\ evalOut = <<>>
    /\ evalPc = "start"
    /\ PanelIdle /\ RaceIdle /\ LogIdle /\ FilterIdle /\ NavIdle /\ FetchIdle /\ DataIdle

\* the handler's load with nothing memoized and no backup file, and the
\* aggregates of that type computed on it
LoadUnconfigured ==
    /\ evalPc = "start"
    /\ LET res == AsResult(LoadSheetOutcome(evalIn.file, evalIn.type, evalIn.answer))
           v   == HandlerOf(evalIn.type, res)
       IN  evalOut' =
             [raised |-> LoadSheetOutcome(evalIn.file, evalIn.type, evalIn.answer).kind = "raised",
              loaded |-> v,
              stats |-> IF evalIn.type = "clients" THEN GetStats(v) ELSE <<>>,
              client_metrics |->
                  IF evalIn.type = "clients"
                  THEN GetClientMetrics(DbClientsOf(v, NoBackup, sAdmin, "owner"))
                  ELSE <<>>,
              inventory_metrics |->
                  IF evalIn.type = "properties" THEN GetInventoryMetrics(v) ELSE <<>>]
    /\ evalPc' = "done"
    /\ UNCHANGED <<evalIn, panelVars, raceVars, logVars, filterVars, navVars, fetchVars, dataVars>>

SpecUnconfigured == UnconfiguredInit /\ [][LoadUnconfigured]_vars

\* C17: with no registry entry for its type, a handler's load raises nothing
\* and returns its empty value, and get_stats, get_client_metrics and
\* get_inventory_metrics on it (no backup file) return zero counts, zero
\* sums and empty group mappings.
C17_UnconfiguredMeansNoData ==
    evalPc = "done" =>
        /\ ~evalOut.raised
        /\ IsNoData(evalIn.type, evalOut.loaded)
        /\ evalIn.type = "clients" =>
               /\ evalOut.stats = [total |-> 0, active |-> 0, by_status |-> <<>>,
                                   by_source |-> <<>>]
               /\ ~evalOut.client_metrics.raised
               /\ evalOut.client_metrics.total = 0 /\ evalOut.client_metrics.active = 0
               /\ evalOut.client_metrics.total_value = [nan |-> FALSE, n |-> 0]
               /\ evalOut.client_metrics.by_stage = <<>>
               /\ evalOut.client_metrics.by_source = <<>>
        /\ evalIn.type = "properties" =>
               /\ ~evalOut.inventory_metrics.raised
               /\ evalOut.inventory_metrics.total_units = 0
               /\ evalOut.inventory_metrics.available_units = 0
               /\ evalOut.inventory_metrics.sold_units = 0
               /\ evalOut.inventory_metrics.total_value = [nan |-> FALSE, n |-> 0]
               /\ evalOut.inventory_metrics.avg_price = [sum |-> 0, count |-> 1]

\* the clients handler answered while the registry lists only a properties
\* sheet, whose location answers with rows
C17_Witness ==
    /\ evalPc = "done" /\ evalIn.type = "clients" /\ evalIn.answer = "rows"
    /\ evalIn.file = [state |-> "json",
                      doc |-> ObjectDoc(<<SheetItem("properties", TRUE, urlS1)>>)]
    /\ evalOut.loaded = <<>> /\ evalOut.client_metrics.total = 0

(***************************************************************************)
(* SpecAuth: authenticate_user(username, password) on the user store       *)
(* load_users() returned.  A stored password is the JSON value of          *)
(* users.json: a text (a bcrypt hash or not), a number, or null.           *)
(***************************************************************************)
TextValue(t)   == [kind |-> "text", s |-> t, n |-> 0]
NumberValue(n) == [kind |-> "number", s |-> <<>>, n |-> n]
NullValue      == [kind |-> "null", s |-> <<>>, n |-> 0]

sPw    == <<"p", "w">>
sOther == <<"q">>

StoredChoices ==
    {TextValue(BcryptOf(sPw)), TextValue(sPw), TextValue(sEmpty),
     NumberValue(7), NumberValue(0), NullValue}

\* the store: the account under test and the built-in administrator
UserStore(stored) ==
    << [username |-> sAliceLow, password |-> stored, role |-> sSales, id |-> 4,
        full_name |-> sAliceSmith],
       [username |-> sAdmin, password |-> TextValue(BcryptOf(sAdmin \o s123)),
        role |-> sOwner, id |-> 1] >>

\* whether a text has the shape of a bcrypt hash
IsBcrypt(t) == Len(t) > 4 /\ SubSeq(t, 1, 4) = <<"$", "2", "b", "$">>

\* bcrypt.checkpw(password.encode(), stored_hash) after the str -> bytes
\* step: TypeError for a value that is no text, ValueError for a text that
\* is no hash
CheckPw(password, stored) ==
    IF stored.kind # "text" \/ ~IsBcrypt(stored.s) THEN [raised |-> TRUE, ok |-> FALSE]
    ELSE [raised |-> FALSE, ok |-> stored.s = BcryptOf(password)]

\* bool(value)
Truthy(value) ==
    CASE value.kind = "text" -> value.s # <<>>
      [] value.kind = "number" -> value.n # 0
      [] OTHER -> FALSE

\* the condition of the except branch,
\* `password == stored_hash.decode('utf-8') if isinstance(stored_hash, bytes) else stored_hash`:
\* the comparison is the first operand of the conditional expression
FallbackAccepts(password, stored) ==
    IF stored.kind = "text" THEN password = stored.s ELSE Truthy(stored)

NoIdentity == [kind |-> "none"]

\* users[username].get(field, default)
GetOr(entry, field, default) == IF field \in DOMAIN entry THEN entry[field] ELSE default

IdentityOf(entry) ==
    [kind |-> "identity", username |-> entry.username, role |-> entry.role, id |-> entry.id,
     email |-> GetOr(entry, "email", sEmpty),
     full_name |-> GetOr(entry, "full_name", entry.username),
     department |-> GetOr(entry, "department", sEmpty)]

InStore(users, username) == \E i \in DOMAIN users : users[i].username = username

EntryOf(users, username) == users[CHOOSE i \in DOMAIN users : users[i].username = username]

AuthenticateUser(users, username, password) ==
    IF username = sEmpty \/ password = sEmpty THEN NoIdentity
    ELSE IF ~InStore(users, username) THEN NoIdentity
    ELSE LET entry   == EntryOf(users, username)
             checked == CheckPw(password, entry.password)
         IN  IF ~checked.raised
             THEN (IF checked.ok THEN IdentityOf(entry) ELSE NoIdentity)
             ELSE IF FallbackAccepts(password, entry.password) THEN IdentityOf(entry)
             ELSE NoIdentity

AuthInit ==
    /\ evalIn \in [users : {UserStore(v) : v \in StoredChoices},
                    username : {sEmpty, sAliceLow, sAdmin, sBobLow},
                    password : {sEmpty, sPw, sOther, BcryptOf(sPw)}]
    /\ evalOut = <<>>
    /\ evalPc = "start"
    /\ PanelIdle /\ RaceIdle /\ LogIdle /\ FilterIdle /\ NavIdle /\ FetchIdle /\ DataIdle

Login ==
    /\ evalPc = "start"
    /\ evalOut' = AuthenticateUser(evalIn.users, evalIn.username, evalIn.password)
    /\ evalPc' = "done"
    /\ UNCHANGED <<evalIn, panelVars, raceVars, logVars, filterVars, navVars, fetchVars, dataVars>>

SpecAuth == AuthInit /\ [][Login]_vars

\* the password verifies against the stored value: by hash comparison, or
\* by equality of the texts when the stored value is no hash
Verifies(password, stored) ==
    /\ stored.kind = "text"
    /\ IF IsBcrypt(stored.s) THEN stored.s = BcryptOf(password) ELSE password = stored.s

\* C18: authenticate_user returns no identity for an empty username, an
\* empty password or an unknown username; otherwise it returns the identity
\* of that user exactly when the password verifies against the stored value.
C18_IdentityIffVerified ==
    evalPc = "done" =>
        IF evalIn.username = sEmpty \/ evalIn.password = sEmpty
           \/ ~InStore(evalIn.users, evalIn.username)
        THEN evalOut = NoIdentity
        ELSE LET entry == EntryOf(evalIn.users, evalIn.username)
             IN  IF Verifies(evalIn.password, entry.password)
                 THEN /\ evalOut.kind = "identity"
                      /\ evalOut.username = evalIn.username
                      /\ evalOut.role = entry.role /\ evalOut.id = entry.id
                 ELSE evalOut = NoIdentity

(***************************************************************************)
(* SpecPanel: the manager's staff table.  Every click is a script run: a   *)
(* new ManagerControlPanel takes load_users() (memoized, else users.json,  *)
(* else the default accounts; no users sheet is registered), then the      *)
(* button's handler runs.                                                  *)
(***************************************************************************)
StaffUser(name, role) == [username |-> name, password |-> BcryptOf(name \o s123), role |-> role]

StoreChoices ==
    {<<StaffUser(sAdmin, sOwner), StaffUser(sManager, sManager), StaffUser(sAliceLow, sSales)>>,
     <<StaffUser(sManager, sManager), StaffUser(sAliceLow, sSales)>>,
     <<StaffUser(sAdmin, sOwner)>>}

UserNames(users) == {users[i].username : i \in DOMAIN users}

\* del users[username]
WithoutUser(users, username) ==
    SelectRows(users, {i \in DOMAIN users : users[i].username # username}, 1)

\* load_users() at the start of the run, and users.json after it
PanelLoadUsers ==
    IF panelMemo.has THEN panelMemo.val
    ELSE IF panelFile.exists THEN panelFile.users
    ELSE DefaultUsers

PanelFileAfterLoad ==
    IF panelMemo.has \/ panelFile.exists THEN panelFile
    ELSE [exists |-> TRUE, users |-> DefaultUsers]

\* a click that removes whoever was selected, the acting user included
RefusesOnlyEmpty(target, actor) == target = sEmpty

\* the else branch of `if delete_user and delete_user != st.session_state.user['username']`
RefusesRemoval(target, actor) == ~(target # sEmpty /\ target # actor)

PanelInit ==
    /\ panelFile \in {NoUsersFile} \cup {[exists |-> TRUE, users |-> u] : u \in StoreChoices}
    /\ panelActor \in {sAdmin, sManager}
    /\ panelUsers = <<>>
    /\ panelMemo = [has |-> FALSE]
    /\ panelRequest = [has |-> FALSE]
    /\ EvalIdle /\ RaceIdle /\ LogIdle /\ FilterIdle /\ NavIdle /\ FetchIdle /\ DataIdle

\* the user store the successful operations so far amount to, applied in
\* order to the store the first run found
PanelExpected == IF panelRequest.has THEN panelRequest.expected ELSE PanelLoadUsers

\* `self.users[username] = {...}` on a store: a new key goes last
WithUser(users, name) ==
    IF name \in UserNames(users) THEN users ELSE Append(users, StaffUser(name, sSales))

\* "Remove Employee" with target selected: _render_staff_table, _remove_user
RemoveEmployee(target, io) ==
    LET users == PanelLoadUsers
        file  == PanelFileAfterLoad
        after == WithoutUser(users, target)
    IN  /\ target \in UserNames(users)
        /\ panelMemo' = [has |-> TRUE, val |-> users]
        /\ IF RefusesRemoval(target, panelActor)
           THEN /\ panelUsers' = users
                /\ panelFile' = file
           ELSE /\ panelUsers' = after
                /\ panelFile' = IF io = "ok" THEN [exists |-> TRUE, users |-> after] ELSE file
        /\ panelRequest' = [has |-> TRUE, op |-> "remove", target |-> target,
                            refused |-> RefusesRemoval(target, panelActor),
                            usersBefore |-> users, fileBefore |-> file,
                            wrote |-> (~RefusesRemoval(target, panelActor) /\ io = "ok"),
                            expected |-> IF ~RefusesRemoval(target, panelActor) /\ io = "ok"
                                         THEN WithoutUser(PanelExpected, target)
                                         ELSE PanelExpected]
        /\ UNCHANGED <<panelActor, evalVars, raceVars, logVars, filterVars, navVars, fetchVars, dataVars>>

\* "Add Employee" with a username and the other required fields filled in
AddEmployee(name, io) ==
    LET users == PanelLoadUsers
        file  == PanelFileAfterLoad
        after == Append(users, StaffUser(name, sSales))
    IN  /\ panelMemo' = [has |-> TRUE, val |-> users]
        /\ IF name \in UserNames(users)
           THEN /\ panelUsers' = users
                /\ panelFile' = file
           ELSE /\ panelUsers' = after
                /\ panelFile' = IF io = "ok" THEN [exists |-> TRUE, users |-> after] ELSE file
        /\ panelRequest' = [has |-> TRUE, op |-> "add", target |-> name,
                            refused |-> name \in UserNames(users),
                            usersBefore |-> users, fileBefore |-> file,
                            wrote |-> (name \notin UserNames(users) /\ io = "ok"),
                            expected |-> IF name \notin UserNames(users) /\ io = "ok"
                                         THEN WithUser(PanelExpected, name)
                                         ELSE PanelExpected]
        /\ UNCHANGED <<panelActor, evalVars, raceVars, logVars, filterVars, navVars, fetchVars, dataVars>>

\* the memoized load_users() value outlives its ttl
PanelExpire ==
    /\ panelMemo.has
    /\ panelMemo' = [has |-> FALSE]
    /\ UNCHANGED <<panelUsers, panelFile, panelActor, panelRequest>>
    /\ UNCHANGED <<evalVars, raceVars, logVars, filterVars, navVars, fetchVars, dataVars>>

PanelNext ==
    \/ \E target \in {sAdmin, sManager, sAliceLow, sBobLow}, io \in IoChoices :
           RemoveEmployee(target, io)
    \/ \E io \in IoChoices : AddEmployee(sBobLow, io)
    \/ PanelExpire

SpecPanel == PanelInit /\ [][PanelNext]_vars

\* C19: a remove request whose target is the acting user's own username is
\* refused, and the panel's user map and users.json are what they were
\* when the button was clicked.
C19_OwnAccountNotRemoved ==
    (panelRequest.has /\ panelRequest.op = "remove" /\ panelRequest.target = panelActor) =>
        /\ panelRequest.refused
        /\ panelUsers = panelRequest.usersBefore
        /\ panelFile = panelRequest.fileBefore
        /\ panelActor \in UserNames(panelUsers)

\* the manager asked to remove their own account after having removed another
C19_Witness ==
    /\ panelRequest.has /\ panelRequest.op = "remove"
    /\ panelRequest.target = panelActor /\ panelActor = sManager
    /\ panelRequest.refused
    /\ panelFile.exists /\ sAliceLow \notin UserNames(panelFile.users)
    /\ sManager \in UserNames(panelFile.users)

(***************************************************************************)
(* SpecRoundTrip: a save to a backup file followed by its load.  Clients:  *)
(* add_client on the records load_clients returned, then                   *)
(* _load_local_backup as the owner.  Properties: save_properties of a      *)
(* frame pd.read_excel produced, then _load_local_backup.                  *)
(***************************************************************************)
MaxBackupRows == 2

sDay == <<"2", "0", "2", "4", "-", "0", "1", "-", "0", "5">>

\* a record of the clients sheet whose "joined" column holds c
SheetClient(c) == [name |-> NameCell(1), joined |-> c]

ClientLists ==
    UNION {[1..n -> {SheetClient(c) : c \in {Cell(sDay), NaN, DateCell(sDay)}}] :
            n \in 0..MaxBackupRows}

PropertyFrames ==
    {[columns |-> <<"unit_id", "listed">>, rows |-> r] :
        r \in UNION {[1..n -> {<<NameCell(1), c>> :
                                c \in {Cell(sDay), Cell(<<"1", "0">>), NaN, DateCell(sDay)}}] :
                        n \in 0..MaxBackupRows}}

RoundTripInit ==
    /\ evalIn \in [kind : {"clients"}, existing : ClientLists, data : ClientDataChoices,
                    actor : Actors]
                 \cup [kind : {"properties"}, df : PropertyFrames]
    /\ evalOut = <<>>
    /\ evalPc = "start"
    /\ PanelIdle /\ RaceIdle /\ LogIdle /\ FilterIdle /\ NavIdle /\ FetchIdle /\ DataIdle

SaveThenLoad ==
    /\ evalPc = "start"
    /\ evalOut' =
          IF evalIn.kind = "clients"
          THEN LET rec == NewClient(evalIn.data, evalIn.actor.username, evalIn.actor.role,
                                    NextIdOf(evalIn.existing))
                   R   == Append(evalIn.existing, rec)
               IN  [saved |-> R, loaded |-> LocalBackupClients(JsonWrite(R), sAdmin, "owner")]
          ELSE [saved |-> evalIn.df, loaded |-> XlsxWrite(evalIn.df)]
    /\ evalPc' = "done"
    /\ UNCHANGED <<evalIn, panelVars, raceVars, logVars, filterVars, navVars, fetchVars, dataVars>>

SpecRoundTrip == RoundTripInit /\ [][SaveThenLoad]_vars

\* C20: what the load from the backup file returns right after the save is
\* the saved record set: the same records in the same order with the same
\* field names and values.
C20_LoadReturnsWhatWasSaved ==
    evalPc = "done" => evalOut.loaded = evalOut.saved

(***************************************************************************)
(* SpecRace: two sessions each run `with open(path, 'w') as f:             *)
(* json.dump(doc, f)` on the same file (add_client, load_clients'          *)
(* write-through, save_sheets_config).  open truncates; every file object  *)
(* has its own offset; the buffered text is written block by block, the    *)
(* last block at close.  No lock, no temporary file, no rename.            *)
(***************************************************************************)
MaxBlocks == 2

Writers == {"A", "B"}

Block(w, k) == [w |-> w, k |-> k]

\* the bytes a truncation by the other writer left unwritten below an offset
Hole == [w |-> "none", k |-> 0]

\* the complete document of writer w
DocOf(w) == [k \in 1..wDoc[w] |-> Block(w, k)]

\* write(block) at offset pos of a file: what lies beyond is kept
WriteAt(file, pos, block) ==
    [k \in 1..(IF Len(file) > pos + 1 THEN Len(file) ELSE pos + 1) |->
        IF k = pos + 1 THEN block
        ELSE IF k <= Len(file) THEN file[k]
        ELSE Hole]

RaceInit ==
    /\ wDoc \in [Writers -> 1..MaxBlocks]
    /\ wFile = <<Block("old", 1)>>
    /\ wPc = [w \in Writers |-> "idle"]
    /\ wPos = [w \in Writers |-> 0]
    /\ EvalIdle /\ PanelIdle /\ LogIdle /\ FilterIdle /\ NavIdle /\ FetchIdle /\ DataIdle

\* open(path, 'w')
WOpen(w) ==
    /\ wPc[w] = "idle"
    /\ wPc' = [wPc EXCEPT ![w] = "open"]
    /\ wFile' = <<>>
    /\ UNCHANGED <<wPos, wDoc>>
    /\ UNCHANGED <<evalVars, panelVars, logVars, filterVars, navVars, fetchVars, dataVars>>

\* json.dump: the next block goes out at this file object's offset
WWrite(w) ==
    /\ wPc[w] = "open"
    /\ wPos[w] < wDoc[w]
    /\ wFile' = WriteAt(wFile, wPos[w], Block(w, wPos[w] + 1))
    /\ wPos' = [wPos EXCEPT ![w] = wPos[w] + 1]
    /\ UNCHANGED <<wPc, wDoc>>
    /\ UNCHANGED <<evalVars, panelVars, logVars, filterVars, navVars, fetchVars, dataVars>>

\* the with block ends
WClose(w) ==
    /\ wPc[w] = "open"
    /\ wPos[w] = wDoc[w]
    /\ wPc' = [wPc EXCEPT ![w] = "done"]
    /\ UNCHANGED <<wFile, wPos, wDoc>>
    /\ UNCHANGED <<evalVars, panelVars, logVars, filterVars, navVars, fetchVars, dataVars>>

RaceNext == \E w \in Writers : WOpen(w) \/ WWrite(w) \/ WClose(w)

SpecRace == RaceInit /\ [][RaceNext]_vars

\* C21: once both writers have finished, the file holds exactly the complete
\* document of one of them.
C21_LastWriterWins ==
    (\A w \in Writers : wPc[w] = "done") =>
        \E w \in Writers : wFile = DocOf(w)

(***************************************************************************)
(* SpecDuplicates: get_sheet_by_type on registries of up to MaxEntries     *)
(* entries whose types may repeat.                                         *)
(***************************************************************************)
MaxEntries == 3

DupTypes == {"clients", "properties"}

DupRegistries ==
    UNION {[1..n -> {SheetItem(t, TRUE, u) : t \in DupTypes, u \in {urlS1, urlS2}}] :
              n \in 1..MaxEntries}

\* the positions of the entries of type t
PositionsOfType(items, t) == {k \in DOMAIN items : items[k].type = t}

DuplicatesInit ==
    /\ evalIn \in [items : DupRegistries, type : DupTypes]
    /\ evalOut = <<>>
    /\ evalPc = "start"
    /\ PanelIdle /\ RaceIdle /\ LogIdle /\ FilterIdle /\ NavIdle /\ FetchIdle /\ DataIdle

CallGetSheetByType ==
    /\ evalPc = "start"
    /\ evalOut' = SheetByTypeOf(ObjectDoc(evalIn.items), evalIn.type)
    /\ evalPc' = "done"
    /\ UNCHANGED <<evalIn, panelVars, raceVars, logVars, filterVars, navVars, fetchVars, dataVars>>

SpecDuplicates == DuplicatesInit /\ [][CallGetSheetByType]_vars

\* C22: when the registry holds more than one entry of the asked type,
\* get_sheet_by_type returns the last of them.
C22_LaterEntryShadows ==
    (evalPc = "done" /\ Cardinality(PositionsOfType(evalIn.items, evalIn.type)) > 1) =>
        LET last == CHOOSE k \in PositionsOfType(evalIn.items, evalIn.type) :
                        \A j \in PositionsOfType(evalIn.items, evalIn.type) : j <= k
        IN  evalOut.sheet = SheetEntry(evalIn.type, evalIn.items[last].url)

(***************************************************************************)
(* SpecLocation: the two places that turn a location string into an export *)
(* target, load_sheet_by_type and the data-entry page's "Import Data"      *)
(* button, on every string of up to MaxUrlLen symbols.  A string is a      *)
(* sequence of characters; the literal "/spreadsheets/d/" is one symbol.   *)
(***************************************************************************)
MaxUrlLen == 4

PathMark == "/spreadsheets/d/"

\* characters of the class [a-zA-Z0-9-_] and others
TokenChars == {"i", "d", "x"}
OtherChars == {"=", "?"}

UrlSymbols == {PathMark} \cup TokenChars \cup OtherChars

UrlStrings == UNION {[1..n -> UrlSymbols] : n \in 1..MaxUrlLen}

NoMatch == [found |-> FALSE, id |-> <<>>]

\* ([a-zA-Z0-9-_]+) from position k: the longest run of class characters
GroupFrom(s, k) ==
    LET e == CHOOSE e \in k..Len(s) :
                 /\ \A j \in k..e : s[j] \in TokenChars
                 /\ (e = Len(s) \/ s[e + 1] \notin TokenChars)
    IN  SubSeq(s, k, e)

\* re.search over the positions where prefix (a sequence of symbols)
\* is followed by a class character: the leftmost one
SearchAfter(prefix, s) ==
    LET n  == Len(prefix)
        ks == {k \in 1..(Len(s) - n) :
                  /\ SubSeq(s, k, k + n - 1) = prefix
                  /\ s[k + n] \in TokenChars}
    IN  IF ks = {} THEN NoMatch
        ELSE LET k == CHOOSE k \in ks : \A j \in ks : k <= j
             IN  [found |-> TRUE, id |-> GroupFrom(s, k + n)]

\* r'/spreadsheets/d/([a-zA-Z0-9-_]+)' and r'id=([a-zA-Z0-9-_]+)'
SearchPathPattern(s) == SearchAfter(<<PathMark>>, s)
SearchIdPattern(s)   == SearchAfter(<<"i", "d", "=">>, s)

\* load_sheet_by_type: the patterns in list order, the first that matches
SheetIdOfUrl(s) ==
    IF SearchPathPattern(s).found THEN SearchPathPattern(s) ELSE SearchIdPattern(s)

\* the import button: the path pattern only; .group(1) on no match raises
\* inside the try
ImportSheetId(s) == SearchPathPattern(s)

\* what an entry point does with a location: the export target it fetches,
\* or the failure it reports
LocateOutcome(entry, s) ==
    LET m == IF entry = "load_sheet_by_type" THEN SheetIdOfUrl(s) ELSE ImportSheetId(s)
    IN  IF m.found THEN [fetch |-> TRUE, id |-> m.id, msg |-> "ok"]
        ELSE [fetch |-> FALSE, id |-> <<>>,
              msg |-> IF entry = "load_sheet_by_type" THEN "Invalid URL format"
                      ELSE "Error importing"]

EntryPoints == {"load_sheet_by_type", "import"}

LocationInit ==
    /\ evalIn \in [entry : EntryPoints, url : UrlStrings]
    /\ evalOut = <<>>
    /\ evalPc = "start"
    /\ PanelIdle /\ RaceIdle /\ LogIdle /\ FilterIdle /\ NavIdle /\ FetchIdle /\ DataIdle

Locate ==
    /\ evalPc = "start"
    /\ evalOut' = LocateOutcome(evalIn.entry, evalIn.url)
    /\ evalPc' = "done"
    /\ UNCHANGED <<evalIn, panelVars, raceVars, logVars, filterVars, navVars, fetchVars, dataVars>>

SpecLocation == LocationInit /\ [][Locate]_vars

\* the tokens that follow an occurrence of prefix in s
TokensAfter(prefix, s) ==
    {GroupFrom(s, k + Len(prefix)) :
        k \in {j \in 1..(Len(s) - Len(prefix)) :
                  /\ SubSeq(s, j, j + Len(prefix) - 1) = prefix
                  /\ s[j + Len(prefix)] \in TokenChars}}

\* C23: each entry point fetches if and only if the location contains
\* /spreadsheets/d/<ID> or id=<ID>; the target comes from such an <ID>, a
\* /spreadsheets/d/ one when there is one; any other location ends in a
\* failure without a fetch.
C23_AcceptedShapes ==
    evalPc = "done" =>
        LET path == TokensAfter(<<PathMark>>, evalIn.url)
            ideq == TokensAfter(<<"i", "d", "=">>, evalIn.url)
        IN  /\ evalOut.fetch <=> (path # {} \/ ideq # {})
            /\ (evalOut.fetch /\ path # {}) => evalOut.id \in path
            /\ (evalOut.fetch /\ path = {}) => evalOut.id \in ideq

(***************************************************************************)
(* SpecLog: log_activity called up to MaxLogCalls times on                 *)
(* logs/activity.log, with details drawn from every text of up to          *)
(* MaxDetailLen characters over a letter, the pipe and the line break.     *)
(***************************************************************************)
MaxLogCalls == 2
MaxDetailLen == 2

cPipe == "|"
cBreak == "\n"

DetailChars == {"c", cPipe, cBreak}

DetailTexts == UNION {[1..n -> DetailChars] : n \in 0..MaxDetailLen}

LogUsernames == {sAliceLow}

LogActions == {<<"a", "d", "d", "_", "c", "l", "i", "e", "n", "t">>}

\* datetime.now().isoformat(): digits, '-', ':', '.', 'T'
sIsoNow == <<"T">>

\* f"{datetime.now().isoformat()}|{username}|{action}|{details}\n"
LogEntry(username, action, details) ==
    sIsoNow \o <<cPipe>> \o username \o <<cPipe>> \o action \o <<cPipe>> \o details \o <<cBreak>>

LogInit ==
    /\ logFile = <<>>
    /\ logLast = [has |-> FALSE, calls |-> 0]
    /\ EvalIdle /\ PanelIdle /\ RaceIdle /\ FilterIdle /\ NavIdle /\ FetchIdle /\ DataIdle

\* log_activity(username, action, details): makedirs, open in append
\* mode, one write; any exception is swallowed
LogActivity(username, action, details, io) ==
    /\ logLast.calls < MaxLogCalls
    /\ logFile' = IF io = "ok" THEN logFile \o LogEntry(username, action, details)
                  ELSE logFile
    /\ logLast' = [has |-> TRUE, calls |-> logLast.calls + 1, io |-> io, raised |-> FALSE,
                   before |-> logFile, username |-> username, action |-> action,
                   details |-> details]
    /\ UNCHANGED <<evalVars, panelVars, raceVars, filterVars, navVars, fetchVars, dataVars>>

LogNext ==
    \E username \in LogUsernames, action \in LogActions, details \in DetailTexts,
       io \in IoChoices : LogActivity(username, action, details, io)

SpecLog == LogInit /\ [][LogNext]_vars

\* how many times character c occurs in text s
CountChar(s, c) == Cardinality({k \in DOMAIN s : s[k] = c})

\* what the last call added to the file
LogAdded == SubSeq(logFile, Len(logLast.before) + 1, Len(logFile))

\* C24: a log_activity call that succeeds leaves the earlier content in
\* place and appends exactly one line of exactly four pipe-delimited
\* fields; one that fails raises nothing and changes nothing.
C24_OneLineOfFourFields ==
    logLast.has =>
        /\ ~logLast.raised
        /\ SubSeq(logFile, 1, Len(logLast.before)) = logLast.before
        /\ logLast.io = "fail" => logFile = logLast.before
        /\ logLast.io = "ok" =>
               /\ LogAdded # <<>>
               /\ CountChar(LogAdded, cBreak) = 1
               /\ LogAdded[Len(LogAdded)] = cBreak
               /\ CountChar(LogAdded, cPipe) = 3

\* the users authenticate_user looks the username up in: load_users()
AuthenticationStore == PanelLoadUsers

\* C25: after any sequence of add-employee and remove-employee operations
\* users.json holds the initial store with the successful operations
\* applied in order, and a user whose removal succeeded is not in the store
\* a login is checked against.
C25_UserWritesNeverLost ==
    panelRequest.has =>
        /\ panelFile.exists /\ panelFile.users = panelRequest.expected
        /\ (panelRequest.op = "remove" /\ panelRequest.wrote) =>
               panelRequest.target \notin UserNames(AuthenticationStore)

\* whether a list of client records holds one with client_id id
HoldsClientId(clients, id) ==
    \E k \in DOMAIN clients :
        "client_id" \in DOMAIN clients[k] /\ clients[k]["client_id"] = id

\* C26: once add_client has returned a client_id with its backup write
\* succeeding, a load_clients by an all-seeing role returns a record with
\* that client_id, and a later add_client that writes the backup writes one
\* that still holds it.
C26_AddedClientStays ==
    /\ [](lastAdd.has /\ lastAdd.wrote =>
            HoldsClientId(DbValue(KeyAdmin), lastAdd.returned))
    /\ [][(lastAdd.has /\ lastAdd.wrote /\ addedIds' # addedIds /\ lastAdd'.wrote) =>
            HoldsClientId(clientsBackup'.clients, lastAdd.returned)]_vars

\* a sales user none of whose rows are in the clients sheet
KeyCarol == Key(sCarolLow, "sales", 0)

\* ClientDatabase.load_clients(username, role)["clients"] when nothing is
\* memoized for these arguments, given load_sheet_by_type's answer
LoadClientsOn(res, key) ==
    DbClientsOf(ClientsOf(res, key.username, key.role), clientsBackup,
                key.username, key.role)

\* C27: when the remote clients fetch succeeds, every record load_clients
\* returns is a row of that snapshot that the access rule lets the caller
\* see; a sales user without rows in the snapshot gets nothing.
C27_BackupOnlyAfterFailedFetch ==
    LoadSheetByType("clients").ok =>
        \A key \in {KeyCarol} \cup {k \in {KeyAlice, KeyAdmin} : ~hCache[k].has /\ ~dCache[k].has} :
            Range(LoadClientsOn(LoadSheetByType("clients"), key))
                \subseteq Range(ClientsOf(LoadSheetByType("clients"), key.username, key.role))

(***************************************************************************)
(* SpecSources: PropertyDatabase.load_properties on each way its table can *)
(* come about: the sheet answers; the sheet fails after an earlier load    *)
(* wrote the backup; the sheet fails after save_properties wrote the       *)
(* backup from an uploaded file.                                           *)
(***************************************************************************)
Sources == {"remote", "backup of a load", "backup of an upload"}

SheetDown == [ok |-> FALSE, df |-> EmptyDf, msg |-> "Error"]

\* PropertyDatabase.load_properties, given load_sheet_by_type's answer and
\* the backup file
LoadPropertiesOn(res, backup) ==
    IF PropertiesOf(res).rows # <<>> THEN PropertiesOf(res)
    ELSE IF backup.exists THEN backup.df
    ELSE EmptyDf

\* data/properties_backup.xlsx after load_properties ran on a sheet that answered
BackupOfLoad(df) == [exists |-> TRUE, df |-> XlsxWrite(PropertiesOf(Loaded(df)))]

\* data/properties_backup.xlsx after save_properties(df)
BackupOfUpload(df) == [exists |-> TRUE, df |-> XlsxWrite(df)]

SourcesInit ==
    /\ evalIn \in [source : Sources, df : Snapshots(PropertiesHeaderPool)]
    /\ evalOut = <<>>
    /\ evalPc = "start"
    /\ PanelIdle /\ RaceIdle /\ LogIdle /\ FilterIdle /\ NavIdle /\ FetchIdle /\ DataIdle

LoadFromSource ==
    /\ evalPc = "start"
    /\ evalOut' = CASE evalIn.source = "remote" ->
                         LoadPropertiesOn(Loaded(evalIn.df), NoPropsBackup)
                    [] evalIn.source = "backup of a load" ->
                         LoadPropertiesOn(SheetDown, BackupOfLoad(evalIn.df))
                    [] OTHER ->
                         LoadPropertiesOn(SheetDown, BackupOfUpload(evalIn.df))
    /\ evalPc' = "done"
    /\ UNCHANGED <<evalIn, panelVars, raceVars, logVars, filterVars, navVars, fetchVars, dataVars>>

SpecSources == SourcesInit /\ [][LoadFromSource]_vars

\* no column carries an alias while its canonical field is absent
NoStrayAlias(df) ==
    \A e \in Range(PropertiesColumnMapping) :
        \A k \in DOMAIN e[2] :
            (e[2][k] # e[1] /\ InColumns(e[2][k], df.columns)) => InColumns(e[1], df.columns)

\* every declared-numeric column holds numbers or unset cells only
NumericColumnsHoldNumbers(df) ==
    \A j \in DOMAIN df.columns :
        df.columns[j] \in NumericCols =>
            \A i \in DOMAIN df.rows : df.rows[i][j].na \/ IsNumericText(df.rows[i][j].s)

\* C28: the table load_properties returns satisfies the normalizer's
\* postcondition whichever way it was produced.
C28_LoadedTableIsNormalized ==
    evalPc = "done" => NoStrayAlias(evalOut) /\ NumericColumnsHoldNumbers(evalOut)

\* C29: a remove request whose target is the acting user or the
\* administrator account is refused and leaves the panel's user map and
\* users.json as they were; any other existing target is removed.
C29_OwnOrAdminNotRemoved ==
    (panelRequest.has /\ panelRequest.op = "remove") =>
        IF panelRequest.target = panelActor \/ panelRequest.target = sAdmin
        THEN /\ panelRequest.refused
             /\ panelUsers = panelRequest.usersBefore
             /\ panelFile = panelRequest.fileBefore
        ELSE /\ ~panelRequest.refused
             /\ panelRequest.target \notin UserNames(panelUsers)
             /\ panelRequest.wrote => panelRequest.target \notin UserNames(panelFile.users)

\* the pages that can change the source registry or the user store
AdminPages == {"multi_sheet_config", "quick_setup", "manager"}

\* C30: without an authenticated user the session state is empty and a run
\* shows the login page and loads nothing; a page that can change the
\* source registry or the user store is routed to only while the logged-in
\* role is owner or manager.
C30_RoleGatedRouting ==
    /\ navUser = NoUser =>
           Routed = "login" /\ navPage = "None" /\ navCalls = {} /\ navShown = {}
    /\ Routed \in AdminPages => navUser.role \in {"owner", "manager"}

\* the owner came to the sheets configuration through Quick Access after
\* the dashboard had loaded and backed up the clients
C30_Witness ==
    /\ navUser.role = "owner"
    /\ navPage = "multi_sheet_config" /\ Routed = "multi_sheet_config"
    /\ navBackup.exists

====
